---- MODULE Spec2Model ----
(***************************************************************************)
(* Life OS: the batch Processor (src/src/processor.py), the HTTP capture   *)
(* endpoint (src/cloud_functions/capture/main.py), the sheet store         *)
(* (src/src/sheets_client.py) and the two reminder policies, as state      *)
(* machines over one shared store.                                         *)
(*                                                                         *)
(*   Spec           the batch Processor running processing cycles          *)
(*   SpecHttp       the HTTP capture endpoint serving requests             *)
(*   SpecReminders  the reminder functions applied to drawn inputs         *)
(***************************************************************************)
EXTENDS Integers, Sequences, FiniteSets, TLC

\* ------------------------------------------------------------------ bounds
\* Largest number of captures in the inbox when the batch Processor is
\* constructed.
NumCaptures == 2
\* Largest number of process_inbox calls made on one Processor instance.
MaxCycles == 2
\* Largest product of inbox rows and process_inbox calls: two cycles over one
\* capture, or one cycle over two captures.
MaxWork == 2
\* Largest max_retries the Processor is constructed with; it is constructed
\* with 0, with 1 or with MaxRetriesBound (3 is the default of __init__).
MaxRetriesBound == 3
\* Number of requests the HTTP endpoint serves.
MaxRequests == 2
\* Largest number of rows of an inbox mark_processed is applied to.
MaxRows == 2
\* Largest number of rows of a tab a query is run on.
MaxQueryRows == 2

\* ------------------------------------------------------- program constants
\* Processor.__init__: retry_delay: float = 2.0
RetryDelay == 2
\* calculate_reminders: unique[:5]
ReminderLimit == 5

\* Python's None.
None == "<None>"

ITEM_TYPES == {"Task", "Event", "Idea", "Reference"}
URGENCY_LEVELS == {"HIGH", "MEDIUM", "LOW"}
CALENDAR_ACTIONS == {"CREATE_EVENT", "CREATE_REMINDER", "NONE"}
TabNames == {"Tasks", "Events", "Ideas", "Reference"}
CATEGORIES == {"Car", "Personal", "Family", "Finance", "Health", "Home", "Work",
               "Recruiting", "Travel", "Ideas", "Reference"}
IDEA_SUBCATEGORIES == {"Books", "Movies", "TV", "Restaurants", "Articles", "Gifts",
                       "Products", "Places", "Activities", "Random"}

\* A due date the extraction may return.
SomeDate == "2026-01-15"

VARIABLES
    \* ---- the store (Google Sheet) and the calendar provider
    inbox,        \* Inbox tab: sequence of rows [id, processed]
    tabs,         \* destination tabs: [TabNames -> sequence of rows]
    calendar,     \* calendar provider: sequence of created artifacts
    \* ---- the batch Processor instance
    max_retries,  \* Processor.max_retries
    hasCalendar,  \* Processor.calendar_client is not None
    stats,        \* Processor.stats
    pc,           \* position of the Processor
    cycle,        \* number of process_inbox calls started
    outcome,      \* how the last process_inbox call ended
    queue,        \* inbox_items of the running cycle (inbox ids, in order)
    idx,          \* index in queue of the capture being processed
    attempt,      \* loop variable of _process_single_item
    cur,          \* the ProcessedItem extracted for the current capture
    ops,          \* operations performed for the current capture, in order
    stats0,       \* stats as they were when the current capture was started
    cstats,       \* stats as they were when the running cycle was started
    \* ---- the HTTP capture endpoint
    env,          \* configured environment variables
    hpc,          \* position of the request handler
    req,          \* the request being served
    hid,          \* row_id of the request being served
    hdata,        \* processed_data of the request being served
    hroute,       \* tab_name and calendar_event_id of the request being served
    hops,         \* operations performed for the request being served
    resp,         \* the response [status, success]
    served,       \* number of requests served
    \* ---- the reminder functions
    rin,          \* the drawn input
    rout,         \* the computed lists
    \* ---- the constructor of ProcessedItem
    vin,          \* the drawn keyword arguments
    vout,         \* how the construction ended
    \* ---- mark_processed called on a drawn inbox
    mid,          \* the item_id of the calls
    snap,         \* the inbox as drawn and as it was after each call
    \* ---- SheetsClient._retry_operation called on its own
    rop,          \* its arguments, loop variable, calls and delays so far
    \* ---- the brief queries of SheetsClient called on a drawn sheet
    qry,          \* the rows of the tabs, the arguments and the list returned
    \* ---- a ProcessedItem written to its row and read back
    rt            \* the item, its row and the item read back

storeVars == <<inbox, tabs, calendar>>
procVars == <<max_retries, hasCalendar, stats, pc, cycle, outcome, queue, idx,
              attempt, cur, ops, stats0, cstats>>
httpVars == <<env, hpc, req, hid, hdata, hroute, hops, resp, served>>
remVars == <<rin, rout>>
funVars == <<vin, vout, mid, snap, rop, qry, rt>>
vars == <<inbox, tabs, calendar,
          max_retries, hasCalendar, stats, pc, cycle, outcome, queue, idx,
          attempt, cur, ops, stats0, cstats,
          env, hpc, req, hid, hdata, hroute, hops, resp, served, rin, rout,
          vin, vout, mid, snap, rop, qry, rt>>

\* ------------------------------------------------------------------ helpers
\* A logged operation: its name, how it ended, and the attempt number (extract),
\* the delay (sleep) or the tab (append) it was made with.
Op(name, res, n) == [op |-> name, res |-> res, n |-> n, tab |-> ""]
OpTab(name, res, tab) == [op |-> name, res |-> res, n |-> 0, tab |-> tab]
\* A failed extraction: the last column holds the field at fault.
OpWhy(name, res, n, why) == [op |-> name, res |-> res, n |-> n, tab |-> why]

RECURSIVE Pow2(_)
Pow2(k) == IF k = 0 THEN 1 ELSE 2 * Pow2(k - 1)

HasOp(log, name, res) == \E i \in 1..Len(log) : log[i].op = name /\ log[i].res = res
HasOpNamed(log, name) == \E i \in 1..Len(log) : log[i].op = name
CountOp(log, name) == Cardinality({i \in 1..Len(log) : log[i].op = name})

\* Rows of every destination tab that were appended for inbox id c.
RowsFor(c) ==
    UNION {{<<t, i>> : i \in {k \in 1..Len(tabs[t]) : tabs[t][k].capture = c}} :
           t \in TabNames}
CountRes(log, name, res) ==
    Cardinality({i \in 1..Len(log) : log[i].op = name /\ log[i].res = res})

Processed(c) == \E i \in 1..Len(inbox) : inbox[i].id = c /\ inbox[i].processed = "TRUE"
InInbox(c) == \E i \in 1..Len(inbox) : inbox[i].id = c

\* ---------------------------------------------------------------- the store
\* The test of the processed cell left out: every row is returned.
get_unprocessed_items_All(rows) == [i \in 1..Len(rows) |-> rows[i].id]

\* SheetsClient.get_unprocessed_items: the rows whose processed cell is not TRUE.
get_unprocessed_items(rows) ==
    LET keep == SelectSeq(rows, LAMBDA r : r.processed # "TRUE")
    IN  [i \in 1..Len(keep) |-> keep[i].id]

\* The cell toggled instead of set.
mark_processed_Toggle(rows, item_id) ==
    IF \E i \in 1..Len(rows) : rows[i].id = item_id
    THEN LET i == CHOOSE k \in 1..Len(rows) :
                     /\ rows[k].id = item_id
                     /\ \A j \in 1..(k - 1) : rows[j].id # item_id
         IN  [rows EXCEPT ![i].processed = IF @ = "TRUE" THEN "FALSE" ELSE "TRUE"]
    ELSE rows

\* SheetsClient.mark_processed / mark_inbox_processed: the first row with the
\* id gets TRUE in its processed cell; an unknown id changes nothing.
mark_processed(rows, item_id) ==
    IF \E i \in 1..Len(rows) : rows[i].id = item_id
    THEN LET i == CHOOSE k \in 1..Len(rows) :
                     /\ rows[k].id = item_id
                     /\ \A j \in 1..(k - 1) : rows[j].id # item_id
         IN  [rows EXCEPT ![i].processed = "TRUE"]
    ELSE rows

\* Events dispatched to the Tasks tab.
TabOf_EventsToTasks(item_type) ==
    CASE item_type = "Task" -> "Tasks"
      [] item_type = "Event" -> "Tasks"
      [] item_type = "Idea" -> "Ideas"
      [] item_type = "Reference" -> "Reference"
      [] OTHER -> "Unknown"

\* The destination tab of an item type (Processor._route_item, route_to_sheet).
TabOf(item_type) ==
    CASE item_type = "Task" -> "Tasks"
      [] item_type = "Event" -> "Events"
      [] item_type = "Idea" -> "Ideas"
      [] item_type = "Reference" -> "Reference"
      [] OTHER -> "Unknown"

\* ProcessedItem.to_<type>_row: id and calendar_event_id columns
\* (calendar_event_id or ""); capture records the inbox row it was made for.
to_row(item, c) ==
    [id |-> item.id,
     capture |-> c,
     calendar_event_id |-> IF item.calendar_event_id = None THEN ""
                           ELSE item.calendar_event_id]

\* SheetsClient.add_to_<tab>: append_row.
append_row(t, tab, row) == [t EXCEPT ![tab] = Append(@, row)]

\* SheetsClient.update_calendar_event_id: Task and Event rows only; the first
\* row with the id gets the event id.
update_calendar_event_id(t, item_id, item_type, event_id) ==
    IF item_type \notin {"Task", "Event"} THEN t
    ELSE LET tab == TabOf(item_type)
             rows == t[tab]
         IN  IF \E i \in 1..Len(rows) : rows[i].id = item_id
             THEN LET i == CHOOSE k \in 1..Len(rows) :
                              /\ rows[k].id = item_id
                              /\ \A j \in 1..(k - 1) : rows[j].id # item_id
                  IN  [t EXCEPT ![tab][i].calendar_event_id = event_id]
             ELSE t

\* The id the calendar provider gives to its n-th artifact.
EventId(n) == "evt" \o ToString(n)

\* --------------------------------------------------------- batch Processor
\* models.generate_id (uuid4): an id no inbox row and no other item has. One
\* ProcessedItem at most is built per capture and cycle, so the pair names it.
generate_id(n, c) == n * NumCaptures + c

NoItem == [id |-> 0, item_type |-> None, due_date |-> None,
           calendar_action |-> "NONE", calendar_event_id |-> None]

\* Python truthiness of an optional string: None and "" are false.
Truthy(v) == v # None /\ v # ""

\* validate_subcategory without the test of the category.
construct_item_AnyCategory(category, subcategory) ==
    IF category \notin CATEGORIES THEN "ValidationError"
    ELSE IF Truthy(subcategory) /\ subcategory \notin IDEA_SUBCATEGORIES
         THEN "ValidationError"
    ELSE "ok"

\* ProcessedItem(category=..., subcategory=...): validate_category, then (only
\* if the field validators passed) validate_subcategory.
construct_item(category, subcategory) ==
    IF category \notin CATEGORIES THEN "ValidationError"
    ELSE IF Truthy(subcategory)
            /\ (category # "Ideas" \/ subcategory \notin IDEA_SUBCATEGORIES)
         THEN "ValidationError"
    ELSE "ok"

\* What the model's answer may be: the call raises, the text is empty, the
\* text is no JSON, the JSON is a list, or the JSON is an object with these
\* fields.
NoFields == [item_type |-> None, category |-> None, subcategory |-> None,
             urgency |-> None, due_date |-> None, calendar_action |-> None]
Responses ==
    {[kind |-> k, fields |-> NoFields] :
        k \in {"api_error", "empty", "bad_json", "json_list"}}
    \cup
    {[kind |-> "json", fields |-> f] :
        f \in [item_type : ITEM_TYPES \cup {"Note"},
               category : {"Work", "Ideas", "Bogus"},
               subcategory : {None, "", "Books", "Bogus"},
               urgency : {"MEDIUM", "URGENT"},
               due_date : {None, SomeDate, "tomorrow"},
               calendar_action : CALENDAR_ACTIONS \cup {"REMIND"}]}

\* date.fromisoformat accepts the string.
IsIsoDate(d) == d = SomeDate

\* How an extraction ends: res is "ok" or the exception type, why the field at
\* fault, item the ProcessedItem (its id is generated by the caller).
Outcome(res, why, item) == [res |-> res, why |-> why, item |-> item]

\* AIClient.extract_structure: every failure of the call and of json.loads is
\* raised as AIClientError; anything json.loads returns is handed back.
extract_structure(r) ==
    IF r.kind \in {"api_error", "empty", "bad_json"} THEN "AIClientError" ELSE "ok"

\* AIClient.extract_to_processed_item: extract_structure, then
\* AIExtractionResponse(**extracted) (Literal item_type, urgency and
\* calendar_action), then to_processed_item (date.fromisoformat, then the
\* validators of ProcessedItem). Nothing here catches or converts an exception.
extract_to_processed_item(r) ==
    LET f == r.fields
    IN  IF extract_structure(r) # "ok" THEN Outcome("AIClientError", r.kind, NoItem)
        ELSE IF r.kind = "json_list" THEN Outcome("TypeError", "json_list", NoItem)
        ELSE IF f.item_type \notin ITEM_TYPES
             THEN Outcome("ValidationError", "item_type", NoItem)
        ELSE IF f.urgency \notin URGENCY_LEVELS
             THEN Outcome("ValidationError", "urgency", NoItem)
        ELSE IF f.calendar_action \notin CALENDAR_ACTIONS
             THEN Outcome("ValidationError", "calendar_action", NoItem)
        ELSE IF Truthy(f.due_date) /\ ~IsIsoDate(f.due_date)
             THEN Outcome("ValueError", "due_date", NoItem)
        ELSE IF f.category \notin CATEGORIES
             THEN Outcome("ValidationError", "category", NoItem)
        ELSE IF construct_item(f.category, f.subcategory) # "ok"
             THEN Outcome("ValidationError", "subcategory", NoItem)
        ELSE Outcome("ok", "",
                     [id |-> 0, item_type |-> f.item_type,
                      due_date |-> IF Truthy(f.due_date) THEN f.due_date ELSE None,
                      calendar_action |-> f.calendar_action,
                      calendar_event_id |-> None])

ExtractOutcomes == {extract_to_processed_item(r) : r \in Responses}

\* The ProcessedItems extract_to_processed_item can return: the Literal types
\* admit only the four item types and three calendar actions; id is
\* generated, calendar_event_id is not passed and stays None.
ExtractedItems(id) ==
    {[o.item EXCEPT !.id = id] : o \in {x \in ExtractOutcomes : x.res = "ok"}}

InitStats == [processed |-> 0, failed |-> 0, tasks_created |-> 0,
              events_created |-> 0, ideas_created |-> 0,
              references_created |-> 0, calendar_events_created |-> 0]

\* Processor._route_item: the per-type counter incremented after the append.
CreatedCounter(item_type) ==
    CASE item_type = "Task" -> "tasks_created"
      [] item_type = "Event" -> "events_created"
      [] item_type = "Idea" -> "ideas_created"
      [] item_type = "Reference" -> "references_created"

\* The test of calendar_action left out: every routed item enters the step.
WantsCalendar_Always(item) == TRUE

\* Processor._process_single_item line 147: the calendar step is entered.
WantsCalendar(item) == item.calendar_action \in {"CREATE_EVENT", "CREATE_REMINDER"}

\* Processor._create_calendar_event lines 202-208: the early returns.
CalendarSkipped(item) == ~hasCalendar \/ item.due_date = None

\* The delay without the exponential factor.
BackoffDelay_Constant(k) == RetryDelay

\* Processor._process_single_item line 163: the delay slept after attempt k.
BackoffDelay(k) == RetryDelay * Pow2(k)

\* The comparison off by one: the last attempt sleeps too and nothing hands the
\* capture to _handle_failed_item.
RetryFollows_OffByOne(k) == k < max_retries

\* Processor._process_single_item line 162: a retry follows attempt k.
RetryFollows(k) == k < max_retries - 1

Cap == queue[idx]

NoRequest == [method |-> None, bearer |-> None, xkey |-> None, body |-> None]
NoData == [item_type |-> None, due_date |-> None, category |-> None]
NoRoute == [tab_name |-> None, calendar_event_id |-> None]
NoResponse == [status |-> 0, success |-> FALSE, cors |-> FALSE]
\* jsonify with the status code set: the status, the success field of the body
\* (FALSE when the body has none) and no CORS header yet.
jsonify(status, success) == [status |-> status, success |-> success, cors |-> FALSE]
\* add_cors_headers: the three Access-Control-Allow headers are set.
add_cors_headers(response) == [response EXCEPT !.cors = TRUE]

HttpIdle ==
    /\ env = {} /\ hpc = "off" /\ req = NoRequest /\ hid = 0 /\ hdata = NoData
    /\ hroute = NoRoute /\ hops = <<>> /\ resp = NoResponse /\ served = 0
NoInput == [item_type |-> None, urgency |-> None, location |-> None,
            consequence |-> None]
RemIdle == rin = NoInput /\ rout = [main |-> <<>>, mainDone |-> FALSE,
                                    client |-> <<>>, clientDone |-> FALSE]
NoArgs == [category |-> None, subcategory |-> None]
NoRetry == [max_retries |-> 0, retry_delay |-> 0, attempt |-> 0,
            last_exception |-> None, calls |-> <<>>, sleeps |-> <<>>,
            res |-> "off", value |-> None]
NoQuery == [fn |-> None, tasks |-> <<>>, events |-> <<>>, target |-> 0,
            today |-> 0, days |-> 0, out |-> <<>>, done |-> FALSE]
\* The item and the item read back are <<>> until they exist and <<item>> then;
\* a row is never empty.
NoRoundTrip == [item |-> <<>>, row |-> <<>>, back |-> <<>>]
FunIdle ==
    /\ vin = NoArgs /\ vout = "none" /\ mid = 0 /\ snap = <<>> /\ rop = NoRetry
    /\ qry = NoQuery /\ rt = NoRoundTrip
ProcIdle ==
    /\ max_retries = 0 /\ hasCalendar = FALSE /\ stats = InitStats /\ pc = "off"
    /\ cycle = 0 /\ outcome = "none" /\ queue = <<>> /\ idx = 0 /\ attempt = 0
    /\ cur = NoItem /\ ops = <<>> /\ stats0 = InitStats /\ cstats = InitStats

\* Processor.__init__ against an inbox holding up to NumCaptures unprocessed
\* captures.
Init ==
    /\ \E n \in 1..NumCaptures :
          inbox = [i \in 1..n |-> [id |-> i, processed |-> "FALSE"]]
    /\ tabs = [t \in TabNames |-> <<>>]
    /\ calendar = <<>>
    /\ max_retries \in {0, 1, MaxRetriesBound}
    /\ hasCalendar \in BOOLEAN
    /\ stats = InitStats
    /\ pc = "idle"
    /\ cycle = 0
    /\ outcome = "none"
    /\ queue = <<>>
    /\ idx = 0
    /\ attempt = 0
    /\ cur = NoItem
    /\ ops = <<>>
    /\ stats0 = InitStats
    /\ cstats = InitStats
    /\ HttpIdle
    /\ RemIdle
    /\ FunIdle

\* process_inbox lines 98-103: get_unprocessed_items raises. A SheetsClientError
\* becomes ProcessorError; a gspread APIError re-raised by _retry_operation is
\* no SheetsClientError and leaves process_inbox as it is.
FetchFail ==
    /\ pc = "idle" /\ cycle < MaxCycles /\ (cycle + 1) * Len(inbox) <= MaxWork
    /\ \E e \in {"ProcessorError", "APIError"} : outcome' = e
    /\ cycle' = cycle + 1
    /\ queue' = <<>> /\ idx' = 0 /\ ops' = <<>> /\ cur' = NoItem /\ attempt' = 0
    /\ stats0' = stats /\ cstats' = stats
    /\ UNCHANGED <<storeVars, max_retries, hasCalendar, stats, pc, httpVars, remVars, funVars>>

\* process_inbox lines 100-109: the unprocessed list is fetched; an empty list
\* returns the stats at once.
FetchOk ==
    /\ pc = "idle" /\ cycle < MaxCycles /\ (cycle + 1) * Len(inbox) <= MaxWork
    /\ cycle' = cycle + 1
    /\ queue' = get_unprocessed_items(inbox)
    /\ idx' = 0 /\ ops' = <<>> /\ cur' = NoItem /\ attempt' = 0
    /\ stats0' = stats /\ cstats' = stats
    /\ IF queue' = <<>>
       THEN pc' = "idle" /\ outcome' = "returned"
       ELSE pc' = "loop" /\ outcome' = "running"
    /\ UNCHANGED <<storeVars, max_retries, hasCalendar, stats, httpVars, remVars, funVars>>

\* process_inbox lines 112-113: the for loop takes the next capture and enters
\* _process_single_item.
LoopNext ==
    /\ pc = "loop" /\ idx < Len(queue)
    /\ idx' = idx + 1
    /\ attempt' = 0 /\ cur' = NoItem /\ ops' = <<>> /\ stats0' = stats
    /\ pc' = "extract"
    /\ UNCHANGED <<storeVars, max_retries, hasCalendar, stats, cycle, outcome,
                   queue, cstats, httpVars, remVars, funVars>>

\* The loop left as soon as a capture has failed.
LoopEnd_OnFailure ==
    /\ pc = "loop"
    /\ idx = Len(queue) \/ (idx >= 1 /\ stats.failed > stats0.failed)
    /\ pc' = "idle" /\ outcome' = "returned"
    /\ UNCHANGED <<storeVars, max_retries, hasCalendar, stats, cycle, queue, idx,
                   attempt, cur, ops, stats0, cstats,
                   httpVars, remVars, funVars>>

\* process_inbox lines 115-121: the list is exhausted, the stats are returned.
LoopEnd ==
    /\ pc = "loop" /\ idx = Len(queue)
    /\ pc' = "idle" /\ outcome' = "returned"
    /\ UNCHANGED <<storeVars, max_retries, hasCalendar, stats, cycle, queue, idx,
                   attempt, cur, ops, stats0, cstats,
                   httpVars, remVars, funVars>>

\* A capture that got no attempt handed to _handle_failed_item.
RangeEmpty_Failed ==
    /\ pc = "extract" /\ attempt >= max_retries
    /\ stats' = [stats EXCEPT !.failed = @ + 1]
    /\ pc' = "loop"
    /\ UNCHANGED <<storeVars, max_retries, hasCalendar, cycle, outcome,
                   queue, idx, attempt, cur, ops, stats0, cstats,
                   httpVars, remVars, funVars>>

\* _process_single_item line 135 with max_retries = 0: range(0) is empty, the
\* body never runs and None is returned.
RangeEmpty ==
    /\ pc = "extract" /\ attempt >= max_retries
    /\ pc' = "loop"
    /\ UNCHANGED <<storeVars, max_retries, hasCalendar, stats, cycle, outcome,
                   queue, idx, attempt, cur, ops, stats0, cstats,
                   httpVars, remVars, funVars>>

\* A failure counted twice.
handle_failed_item_Twice(s) == [s EXCEPT !.failed = @ + 2]

\* _handle_failed_item: failed is incremented, then mark_failed is called,
\* which reads the inbox and logs; it returns, or what it raises (the inbox
\* could not be read) is swallowed.
handle_failed_item(s) == [s EXCEPT !.failed = @ + 1]
MarkFailedOps ==
    {<<Op("mark_failed", "ok", 0)>>, <<Op("mark_failed", "swallowed", 0)>>}

\* lines 138-141 succeed: extract_to_processed_item returns a ProcessedItem.
ExtractOk ==
    /\ pc = "extract" /\ attempt < max_retries
    /\ \E item \in ExtractedItems(generate_id(cycle, Cap)) : cur' = item
    /\ ops' = Append(ops, Op("extract", "ok", attempt))
    /\ pc' = "route"
    /\ UNCHANGED <<storeVars, max_retries, hasCalendar, stats, cycle,
                   outcome, queue, idx, attempt, stats0, cstats,
                   httpVars, remVars, funVars>>

\* lines 158-165: extraction raises AIClientError; sleep and retry, or after
\* the last attempt hand the capture to _handle_failed_item.
ExtractAIError ==
    /\ pc = "extract" /\ attempt < max_retries
    /\ \E o \in ExtractOutcomes : o.res = "AIClientError"
    /\ IF RetryFollows(attempt)
       THEN /\ ops' = ops \o <<Op("extract", "AIClientError", attempt),
                               Op("sleep", "ok", BackoffDelay(attempt))>>
            /\ attempt' = attempt + 1
            /\ pc' = "extract"
            /\ stats' = stats
       ELSE /\ \E mf \in MarkFailedOps :
                  ops' = ops \o <<Op("extract", "AIClientError", attempt)>> \o mf
            /\ stats' = handle_failed_item(stats)
            /\ attempt' = 0
            /\ pc' = "loop"
    /\ UNCHANGED <<storeVars, max_retries, hasCalendar, cycle, outcome, queue, idx,
                   cur, stats0, cstats,
                   httpVars, remVars, funVars>>

\* The failed capture marked in the inbox so that it is not fetched again.
ExtractOtherError_Marked ==
    /\ pc = "extract" /\ attempt < max_retries
    /\ \E o \in ExtractOutcomes, mf \in MarkFailedOps :
          /\ o.res \notin {"ok", "AIClientError"}
          /\ ops' = ops \o <<OpWhy("extract", o.res, attempt, o.why)>> \o mf
    /\ stats' = handle_failed_item(stats)
    /\ inbox' = mark_processed(inbox, Cap)
    /\ pc' = "loop" /\ attempt' = 0
    /\ UNCHANGED <<tabs, calendar, max_retries, hasCalendar, cycle, outcome, queue,
                   idx, cur, stats0, cstats,
                   httpVars, remVars, funVars>>

\* Every exception of the extraction retried like an AIClientError.
ExtractOtherError_Retried ==
    /\ pc = "extract" /\ attempt < max_retries
    /\ \E o \in ExtractOutcomes :
          /\ o.res \notin {"ok", "AIClientError"}
          /\ IF RetryFollows(attempt)
             THEN /\ ops' = ops \o <<OpWhy("extract", o.res, attempt, o.why),
                                     Op("sleep", "ok", BackoffDelay(attempt))>>
                  /\ attempt' = attempt + 1
                  /\ pc' = "extract"
                  /\ stats' = stats
             ELSE /\ \E mf \in MarkFailedOps :
                        ops' = ops \o <<OpWhy("extract", o.res, attempt, o.why)>> \o mf
                  /\ stats' = handle_failed_item(stats)
                  /\ attempt' = 0
                  /\ pc' = "loop"
    /\ UNCHANGED <<storeVars, max_retries, hasCalendar, cycle, outcome, queue, idx,
                   cur, stats0, cstats,
                   httpVars, remVars, funVars>>

\* lines 172-175: extraction raises something else (the pydantic
\* ValidationError of AIExtractionResponse / ProcessedItem, the ValueError of
\* date.fromisoformat, a TypeError): failed, break.
ExtractOtherError ==
    /\ pc = "extract" /\ attempt < max_retries
    /\ \E o \in ExtractOutcomes, mf \in MarkFailedOps :
          /\ o.res \notin {"ok", "AIClientError"}
          /\ ops' = ops \o <<OpWhy("extract", o.res, attempt, o.why)>> \o mf
    /\ stats' = handle_failed_item(stats)
    /\ pc' = "loop" /\ attempt' = 0
    /\ UNCHANGED <<storeVars, max_retries, hasCalendar, cycle, outcome, queue, idx,
                   cur, stats0, cstats,
                   httpVars, remVars, funVars>>

\* Every Event with a due date sent to the calendar step, whatever it asks for.
AfterRoute_DatedEvents(item) ==
    IF (WantsCalendar(item) \/ item.item_type = "Event") /\ ~CalendarSkipped(item)
    THEN "calendar" ELSE "mark"

\* Where _process_single_item goes once _route_item returned (lines 146-151).
AfterRoute(item) ==
    IF WantsCalendar(item) /\ ~CalendarSkipped(item) THEN "calendar" ELSE "mark"

\* _route_item: the row is appended to the tab of the item type and the
\* per-type counter incremented.
RouteOk ==
    /\ pc = "route"
    /\ tabs' = append_row(tabs, TabOf(cur.item_type), to_row(cur, Cap))
    /\ stats' = [stats EXCEPT ![CreatedCounter(cur.item_type)] = @ + 1]
    /\ ops' = Append(ops, OpTab("append", "ok", TabOf(cur.item_type)))
    /\ pc' = AfterRoute(cur)
    /\ UNCHANGED <<inbox, calendar, max_retries, hasCalendar, cycle,
                   outcome, queue, idx, attempt, cur, stats0, cstats,
                   httpVars, remVars, funVars>>

\* The error of _route_item swallowed: the item goes on to mark_processed.
RouteFail_Swallowed ==
    /\ pc = "route"
    /\ ops' = Append(ops, OpTab("append", "error", TabOf(cur.item_type)))
    /\ pc' = "mark"
    /\ UNCHANGED <<storeVars, max_retries, hasCalendar, stats, cycle, outcome, queue,
                   idx, attempt, cur, stats0, cstats,
                   httpVars, remVars, funVars>>

\* The error of _route_item handled like an AIClientError: sleep and retry.
RouteFail_Retried ==
    /\ pc = "route"
    /\ IF RetryFollows(attempt)
       THEN /\ ops' = ops \o <<OpTab("append", "error", TabOf(cur.item_type)),
                               Op("sleep", "ok", BackoffDelay(attempt))>>
            /\ attempt' = attempt + 1 /\ pc' = "extract" /\ stats' = stats
       ELSE /\ \E mf \in MarkFailedOps :
                  ops' = ops \o <<OpTab("append", "error", TabOf(cur.item_type))>> \o mf
            /\ stats' = handle_failed_item(stats)
            /\ attempt' = 0 /\ pc' = "loop"
    /\ cur' = NoItem
    /\ UNCHANGED <<storeVars, max_retries, hasCalendar, cycle, outcome, queue, idx,
                   stats0, cstats,
                   httpVars, remVars, funVars>>

\* _route_item raises (SheetNotFoundError, or the APIError _retry_operation
\* re-raises): lines 167-175, failed and break.
RouteFail ==
    /\ pc = "route"
    /\ \E mf \in MarkFailedOps :
          ops' = ops \o <<OpTab("append", "error", TabOf(cur.item_type))>> \o mf
    /\ stats' = handle_failed_item(stats)
    /\ pc' = "loop" /\ attempt' = 0 /\ cur' = NoItem
    /\ UNCHANGED <<storeVars, max_retries, hasCalendar, cycle, outcome, queue, idx,
                   stats0, cstats,
                   httpVars, remVars, funVars>>

\* _create_calendar_event line 211: the provider creates the artifact.
CreateEventOk ==
    /\ pc = "calendar"
    /\ calendar' = Append(calendar, [id |-> EventId(Len(calendar) + 1),
                                     capture |-> Cap, item |-> cur.id,
                                     item_type |-> cur.item_type])
    /\ ops' = Append(ops, Op("create_event", "ok", 0))
    /\ pc' = "backfill"
    /\ UNCHANGED <<inbox, tabs, max_retries, hasCalendar, stats, cycle,
                   outcome, queue, idx, attempt, cur, stats0, cstats,
                   httpVars, remVars, funVars>>

\* The error of create_event not caught in _create_calendar_event: it reaches
\* lines 172-175, failed and break.
CreateEventFail_Fatal ==
    /\ pc = "calendar"
    /\ \E mf \in MarkFailedOps :
          ops' = ops \o <<Op("create_event", "error", 0)>> \o mf
    /\ stats' = handle_failed_item(stats)
    /\ pc' = "loop" /\ attempt' = 0 /\ cur' = NoItem
    /\ UNCHANGED <<storeVars, max_retries, hasCalendar, cycle, outcome, queue, idx,
                   stats0, cstats,
                   httpVars, remVars, funVars>>

\* lines 219-221: create_event raises; logged, the item goes on.
CreateEventFail ==
    /\ pc = "calendar"
    /\ ops' = Append(ops, Op("create_event", "error", 0))
    /\ pc' = "mark"
    /\ UNCHANGED <<storeVars, max_retries, hasCalendar, stats, cycle, outcome,
                   queue, idx, attempt, cur, stats0, cstats,
                   httpVars, remVars, funVars>>

\* lines 212-218: the event id is written to the item's row and the counter
\* incremented.
BackfillOk ==
    /\ pc = "backfill"
    /\ tabs' = update_calendar_event_id(tabs, cur.id, cur.item_type,
                                        calendar[Len(calendar)].id)
    /\ stats' = [stats EXCEPT !.calendar_events_created = @ + 1]
    /\ ops' = Append(ops, Op("update_calendar_event_id", "ok", 0))
    /\ pc' = "mark"
    /\ UNCHANGED <<inbox, calendar, max_retries, hasCalendar, cycle,
                   outcome, queue, idx, attempt, cur, stats0, cstats,
                   httpVars, remVars, funVars>>

\* lines 214-221: update_calendar_event_id raises (it reaches the sheet only
\* for Task and Event); swallowed, the counter is not incremented.
BackfillFail ==
    /\ pc = "backfill"
    /\ cur.item_type \in {"Task", "Event"}
    /\ ops' = Append(ops, Op("update_calendar_event_id", "error", 0))
    /\ pc' = "mark"
    /\ UNCHANGED <<storeVars, max_retries, hasCalendar, stats, cycle, outcome,
                   queue, idx, attempt, cur, stats0, cstats,
                   httpVars, remVars, funVars>>

\* lines 150-156: mark_processed(item.id) returns, processed is incremented.
MarkOk ==
    /\ pc = "mark"
    /\ inbox' = mark_processed(inbox, Cap)
    /\ stats' = [stats EXCEPT !.processed = @ + 1]
    /\ ops' = Append(ops, Op("mark_processed", "ok", 0))
    /\ pc' = "loop" /\ attempt' = 0 /\ cur' = NoItem
    /\ UNCHANGED <<tabs, calendar, max_retries, hasCalendar, cycle,
                   outcome, queue, idx, stats0, cstats,
                   httpVars, remVars, funVars>>

\* The error of mark_failed leaving _handle_failed_item and process_inbox.
MarkFail_MarkFailedRaises ==
    /\ pc = "mark"
    /\ \E mf \in MarkFailedOps :
          /\ ops' = ops \o <<Op("mark_processed", "error", 0)>> \o mf
          /\ IF mf[1].res = "ok"
             THEN pc' = "loop" /\ outcome' = outcome
             ELSE pc' = "idle" /\ outcome' = "APIError"
    /\ stats' = handle_failed_item(stats)
    /\ attempt' = 0 /\ cur' = NoItem
    /\ UNCHANGED <<storeVars, max_retries, hasCalendar, cycle, queue, idx,
                   stats0, cstats, httpVars, remVars, funVars>>

\* mark_processed raises: lines 167-175, failed and break.
MarkFail ==
    /\ pc = "mark"
    /\ \E mf \in MarkFailedOps :
          ops' = ops \o <<Op("mark_processed", "error", 0)>> \o mf
    /\ stats' = handle_failed_item(stats)
    /\ pc' = "loop" /\ attempt' = 0 /\ cur' = NoItem
    /\ UNCHANGED <<storeVars, max_retries, hasCalendar, cycle, outcome, queue, idx,
                   stats0, cstats,
                   httpVars, remVars, funVars>>

Next ==
    \/ FetchFail \/ FetchOk \/ LoopNext \/ LoopEnd \/ RangeEmpty
    \/ ExtractOk \/ ExtractAIError \/ ExtractOtherError
    \/ RouteOk \/ RouteFail
    \/ CreateEventOk \/ CreateEventFail \/ BackfillOk \/ BackfillFail
    \/ MarkOk \/ MarkFail

Spec == Init /\ [][Next]_vars

\* The Processor runs its steps one after another and process_inbox is called
\* again by the scheduler: a step that can be taken is taken.
SpecFair == Init /\ [][Next]_vars /\ WF_vars(Next)

\* ------------------------------------------------------ HTTP capture endpoint
\* The key CAPTURE_API_KEY holds when it is configured.
GoodKey == "good"
EnvNames == {"CAPTURE_API_KEY", "GOOGLE_SHEET_ID", "GOOGLE_API_KEY", "GOOGLE_CALENDAR_ID"}

\* Requests: the method, the key of an 'Authorization: Bearer <key>' header
\* (None without one), the X-API-Key header ("" without one) and the body.
Requests ==
    [method : {"OPTIONS", "POST", "GET"},
     bearer : {None, GoodKey, "bad"},
     xkey : {"", GoodKey, "bad"},
     body : {"no_json", "empty_text", "text"}]

\* Without a configured key every request passes.
verify_api_key_Open(r, e) ==
    IF "CAPTURE_API_KEY" \notin e THEN TRUE
    ELSE IF r.bearer # None THEN r.bearer = GoodKey
    ELSE r.xkey = GoodKey

\* verify_api_key: no configured key rejects; a Bearer header decides alone;
\* otherwise the X-API-Key header decides.
verify_api_key(r, e) ==
    IF "CAPTURE_API_KEY" \notin e THEN FALSE
    ELSE IF r.bearer # None THEN r.bearer = GoodKey
    ELSE r.xkey = GoodKey

\* The key checked before the method.
Precheck_KeyFirst(r, e) ==
    IF ~verify_api_key(r, e) THEN 401
    ELSE IF r.method = "OPTIONS" THEN 200
    ELSE IF r.method # "POST" THEN 405
    ELSE IF r.body # "text" THEN 400
    ELSE IF "GOOGLE_SHEET_ID" \notin e THEN 500
    ELSE 0

\* The body checked before the key.
Precheck_BodyFirst(r, e) ==
    IF r.method = "OPTIONS" THEN 200
    ELSE IF r.method # "POST" THEN 405
    ELSE IF r.body # "text" THEN 400
    ELSE IF ~verify_api_key(r, e) THEN 401
    ELSE IF "GOOGLE_SHEET_ID" \notin e THEN 500
    ELSE 0

\* capture lines 481-518: the checks made before anything is written, in
\* order; 0 when all pass.
Precheck(r, e) ==
    IF r.method = "OPTIONS" THEN 200
    ELSE IF r.method # "POST" THEN 405
    ELSE IF ~verify_api_key(r, e) THEN 401
    ELSE IF r.body # "text" THEN 400
    ELSE IF "GOOGLE_SHEET_ID" \notin e THEN 500
    ELSE 0

\* What json.loads of the model's answer may hold: item_type may be absent
\* (None) or no known type; category may be outside CATEGORIES.
GeminiData ==
    [item_type : ITEM_TYPES \cup {None, "Note"},
     due_date : {None, SomeDate},
     category : {"Work", "Bogus"}]

\* capture lines 552-554: an invalid category becomes Personal.
CoerceCategory(d) ==
    IF d.category \notin CATEGORIES THEN [d EXCEPT !.category = "Personal"] ELSE d

\* route_to_sheet line 376: data.get("item_type", "Task").
ItemTypeOf(d) == IF d.item_type = None THEN "Task" ELSE d.item_type

\* route_to_sheet lines 379-382: the calendar artifact is asked for.
HttpWantsCalendar(d) == ItemTypeOf(d) = "Event" /\ d.due_date # None

\* main.to_<type>_row: id and calendar_event_id columns.
http_row(item_id, calendar_event_id) ==
    [id |-> item_id, capture |-> item_id,
     calendar_event_id |-> IF calendar_event_id = None THEN "" ELSE calendar_event_id]

InitHttp ==
    /\ inbox = <<>>
    /\ tabs = [t \in TabNames |-> <<>>]
    /\ calendar = <<>>
    /\ env \in SUBSET EnvNames
    /\ hpc = "idle" /\ req = NoRequest /\ hid = 0 /\ hdata = NoData
    /\ hroute = NoRoute /\ hops = <<>> /\ resp = NoResponse /\ served = 0
    /\ ProcIdle
    /\ RemIdle
    /\ FunIdle

\* capture lines 481-518: a request arrives and is checked; a request that
\* passes gets its row_id.
Receive ==
    /\ hpc = "idle" /\ served < MaxRequests
    /\ \E r \in Requests :
          /\ req' = r
          /\ IF Precheck(r, env) = 0
             THEN hpc' = "save" /\ resp' = NoResponse /\ hid' = served + 1
             ELSE /\ hpc' = "idle" /\ hid' = 0
                  /\ resp' = add_cors_headers(jsonify(Precheck(r, env), FALSE))
    /\ served' = served + 1
    /\ hdata' = NoData /\ hroute' = NoRoute /\ hops' = <<>>
    /\ UNCHANGED <<storeVars, env, procVars, remVars, funVars>>

\* lines 520-528: the inbox row is appended with processed FALSE.
SaveOk ==
    /\ hpc = "save"
    /\ inbox' = Append(inbox, [id |-> hid, processed |-> "FALSE"])
    /\ hops' = Append(hops, Op("inbox_append", "ok", 0))
    /\ hpc' = "gemini"
    /\ UNCHANGED <<tabs, calendar, env, req, hid, hdata, hroute, resp, served,
                   procVars, remVars, funVars>>

\* lines 529-532: saving to the inbox raises.
SaveFail ==
    /\ hpc = "save"
    /\ hops' = Append(hops, Op("inbox_append", "error", 0))
    /\ resp' = add_cors_headers(jsonify(500, FALSE))
    /\ hpc' = "idle"
    /\ UNCHANGED <<storeVars, env, req, hid, hdata, hroute, served, procVars, remVars, funVars>>

\* The inbox row marked processed although nothing was extracted.
GeminiNone_Marked ==
    /\ hpc = "gemini"
    /\ hops' = Append(hops, Op("extract", "none", 0))
    /\ inbox' = mark_processed(inbox, hid)
    /\ resp' = add_cors_headers(jsonify(200, TRUE))
    /\ hpc' = "idle"
    /\ UNCHANGED <<tabs, calendar, env, req, hid, hdata, hroute, served, procVars,
                   remVars, funVars>>

\* process_with_gemini returns None (no GOOGLE_API_KEY, the call raised, the
\* answer was empty or no JSON); lines 538-550 answer "saved to inbox".
GeminiNone ==
    /\ hpc = "gemini"
    /\ hops' = Append(hops, Op("extract", "none", 0))
    /\ resp' = add_cors_headers(jsonify(200, TRUE))
    /\ hpc' = "idle"
    /\ UNCHANGED <<storeVars, env, req, hid, hdata, hroute, served, procVars, remVars, funVars>>

\* process_with_gemini line 193 returns JSON that is no object and not falsy
\* (a non-empty list, a string): processed_data.get at line 553 raises
\* AttributeError outside any try, and the framework answers 500 itself.
GeminiNotObject ==
    /\ hpc = "gemini"
    /\ "GOOGLE_API_KEY" \in env
    /\ hops' = Append(hops, Op("extract", "not_object", 0))
    /\ resp' = jsonify(500, FALSE)
    /\ hpc' = "idle"
    /\ UNCHANGED <<storeVars, env, req, hid, hdata, hroute, served, procVars, remVars, funVars>>

\* process_with_gemini returns the parsed answer; lines 552-554 coerce the
\* category; route_to_sheet is entered. The log keeps the category answered.
GeminiOk ==
    /\ hpc = "gemini"
    /\ "GOOGLE_API_KEY" \in env
    /\ \E d \in GeminiData :
          /\ hdata' = CoerceCategory(d)
          /\ hops' = Append(hops, OpWhy("extract", "ok", 0, d.category))
    /\ hpc' = "route"
    /\ UNCHANGED <<storeVars, env, req, hid, hroute, resp, served, procVars, remVars, funVars>>

\* route_to_sheet lines 375-407: the spreadsheet is opened and the item type
\* dispatched; an unrecognized type returns ("Unknown", None) at once.
RouteOpen ==
    /\ hpc = "route"
    /\ IF HttpWantsCalendar(hdata) THEN hpc' = "calendar" /\ hroute' = hroute
       ELSE IF ItemTypeOf(hdata) \in ITEM_TYPES THEN hpc' = "append" /\ hroute' = hroute
       ELSE hpc' = "mark" /\ hroute' = [hroute EXCEPT !.tab_name = "Unknown"]
    /\ UNCHANGED <<storeVars, env, req, hid, hdata, hops, resp, served,
                   procVars, remVars, funVars>>

\* capture lines 562-565: route_to_sheet raises (open_by_key, worksheet or
\* append_row); tab_name is "Error" and the handler goes on.
RoutingFailed ==
    /\ hpc \in {"route", "append"}
    /\ hroute' = [tab_name |-> "Error", calendar_event_id |-> None]
    /\ hops' = Append(hops, Op("append", "error", 0))
    /\ hpc' = "mark"
    /\ UNCHANGED <<storeVars, env, req, hid, hdata, resp, served, procVars, remVars, funVars>>

\* create_calendar_event lines 311-363: the provider creates the artifact.
HttpCalendarOk ==
    /\ hpc = "calendar"
    /\ "GOOGLE_CALENDAR_ID" \in env
    /\ calendar' = Append(calendar, [id |-> EventId(Len(calendar) + 1),
                                     capture |-> hid, item |-> hid,
                                     item_type |-> ItemTypeOf(hdata)])
    /\ hroute' = [hroute EXCEPT !.calendar_event_id = EventId(Len(calendar) + 1)]
    /\ hops' = Append(hops, Op("create_event", "ok", 0))
    /\ hpc' = "append"
    /\ UNCHANGED <<inbox, tabs, env, req, hid, hdata, resp, served, procVars, remVars, funVars>>

\* create_calendar_event returns None: GOOGLE_CALENDAR_ID is not set (lines
\* 302-305, no call is made) or the call raised (lines 365-367).
HttpCalendarNone ==
    /\ hpc = "calendar"
    /\ hops' = IF "GOOGLE_CALENDAR_ID" \in env
               THEN Append(hops, Op("create_event", "error", 0))
               ELSE hops
    /\ hpc' = "append"
    /\ UNCHANGED <<storeVars, env, req, hid, hdata, hroute, resp, served,
                   procVars, remVars, funVars>>

\* route_to_sheet: the row is appended to the tab of the item type.
HttpAppendOk ==
    /\ hpc = "append"
    /\ tabs' = append_row(tabs, TabOf(ItemTypeOf(hdata)),
                          http_row(hid, hroute.calendar_event_id))
    /\ hroute' = [hroute EXCEPT !.tab_name = TabOf(ItemTypeOf(hdata))]
    /\ hops' = Append(hops, OpTab("append", "ok", TabOf(ItemTypeOf(hdata))))
    /\ hpc' = "mark"
    /\ UNCHANGED <<inbox, calendar, env, req, hid, hdata, resp, served,
                   procVars, remVars, funVars>>

\* capture line 568 and lines 570-592: mark_inbox_processed sets the cell,
\* the response is built.
HttpMarkOk ==
    /\ hpc = "mark"
    /\ inbox' = mark_processed(inbox, hid)
    /\ hops' = Append(hops, Op("mark_processed", "ok", 0))
    /\ resp' = add_cors_headers(jsonify(200, TRUE))
    /\ hpc' = "idle"
    /\ UNCHANGED <<tabs, calendar, env, req, hid, hdata, hroute, served,
                   procVars, remVars, funVars>>

\* mark_inbox_processed lines 421-422: the update raises and is swallowed.
HttpMarkFail ==
    /\ hpc = "mark"
    /\ hops' = Append(hops, Op("mark_processed", "error", 0))
    /\ resp' = add_cors_headers(jsonify(200, TRUE))
    /\ hpc' = "idle"
    /\ UNCHANGED <<storeVars, env, req, hid, hdata, hroute, served, procVars, remVars, funVars>>

NextHttp ==
    \/ Receive \/ SaveOk \/ SaveFail \/ GeminiNone \/ GeminiNotObject \/ GeminiOk
    \/ RouteOpen \/ RoutingFailed \/ HttpCalendarOk \/ HttpCalendarNone
    \/ HttpAppendOk \/ HttpMarkOk \/ HttpMarkFail

SpecHttp == InitHttp /\ [][NextHttp]_vars

\* ------------------------------------------------------------ reminder policy
Popup(m) == [method |-> "popup", minutes |-> m]

\* calculate_reminders lines 265-279 / _calculate_reminders lines 236-255:
\* the base list of an urgency; anything but HIGH and MEDIUM takes the else.
BaseReminders(urgency) ==
    IF urgency = "HIGH" THEN <<Popup(10080), Popup(1440), Popup(60)>>
    ELSE IF urgency = "MEDIUM" THEN <<Popup(4320), Popup(1440)>>
    ELSE <<Popup(60)>>

\* Lines 290-296 / 267-273: the first occurrence of each minutes value, in order.
RECURSIVE Dedupe(_, _, _)
Dedupe(reminders, seen, unique) ==
    IF reminders = <<>> THEN unique
    ELSE LET r == Head(reminders)
         IN  IF r.minutes \notin seen
             THEN Dedupe(Tail(reminders), seen \cup {r.minutes}, Append(unique, r))
             ELSE Dedupe(Tail(reminders), seen, unique)

\* unique[:5]
Truncate(seq, n) == SubSeq(seq, 1, IF Len(seq) < n THEN Len(seq) ELSE n)

\* The two appends of lines 282-288 exchanged: consequence before location.
calculate_reminders_ConsequenceFirst(urgency, has_location, has_consequence) ==
    LET base == BaseReminders(urgency)
        withConsequence ==
            IF has_consequence
               /\ ~\E i \in 1..Len(base) : base[i].minutes = 10080
            THEN Append(base, Popup(10080))
            ELSE base
        withLocation ==
            IF has_location THEN Append(withConsequence, Popup(120))
            ELSE withConsequence
    IN  Truncate(Dedupe(withLocation, {}, <<>>), ReminderLimit)

\* Neither the test of line 287 nor the pass of lines 290-296: the
\* consequence reminder is appended whenever has_consequence.
calculate_reminders_NoDedupe(urgency, has_location, has_consequence) ==
    LET base == BaseReminders(urgency)
        withLocation == IF has_location THEN Append(base, Popup(120)) ELSE base
        withConsequence ==
            IF has_consequence THEN Append(withLocation, Popup(10080))
            ELSE withLocation
    IN  Truncate(withConsequence, ReminderLimit)

\* main.calculate_reminders(urgency, has_location, has_consequence)
calculate_reminders(urgency, has_location, has_consequence) ==
    LET base == BaseReminders(urgency)
        withLocation == IF has_location THEN Append(base, Popup(120)) ELSE base
        withConsequence ==
            IF has_consequence
               /\ ~\E i \in 1..Len(withLocation) : withLocation[i].minutes = 10080
            THEN Append(withLocation, Popup(10080))
            ELSE withLocation
    IN  Truncate(Dedupe(withConsequence, {}, <<>>), ReminderLimit)

\* A travel buffer of one hour in place of the two hours of line 258.
calendar_calculate_reminders_HourBuffer(item) ==
    LET base == BaseReminders(item.urgency)
        withLocation ==
            IF Truthy(item.location) /\ item.item_type = "Event"
            THEN Append(base, Popup(60)) ELSE base
        withConsequence ==
            IF Truthy(item.consequence)
               /\ ~\E i \in 1..Len(withLocation) : withLocation[i] = Popup(10080)
            THEN Append(withLocation, Popup(10080))
            ELSE withLocation
    IN  Truncate(Dedupe(withConsequence, {}, <<>>), ReminderLimit)

\* CalendarClient._calculate_reminders(item)
calendar_calculate_reminders(item) ==
    LET base == BaseReminders(item.urgency)
        withLocation ==
            IF Truthy(item.location) /\ item.item_type = "Event"
            THEN Append(base, Popup(120)) ELSE base
        withConsequence ==
            IF Truthy(item.consequence)
               /\ ~\E i \in 1..Len(withLocation) : withLocation[i] = Popup(10080)
            THEN Append(withLocation, Popup(10080))
            ELSE withLocation
    IN  Truncate(Dedupe(withConsequence, {}, <<>>), ReminderLimit)

\* The items the functions are applied to. "URGENT" stands for an urgency
\* outside URGENCY_LEVELS, which the dict of the HTTP endpoint may carry.
ReminderInputs ==
    [item_type : ITEM_TYPES,
     urgency : URGENCY_LEVELS \cup {"URGENT"},
     location : {None, "", "Gym"},
     consequence : {None, "", "late fee"}]

NoLists == [main |-> <<>>, mainDone |-> FALSE, client |-> <<>>, clientDone |-> FALSE]

InitReminders ==
    /\ rin \in ReminderInputs
    /\ rout = NoLists
    /\ inbox = <<>> /\ tabs = [t \in TabNames |-> <<>>] /\ calendar = <<>>
    /\ ProcIdle
    /\ HttpIdle
    /\ FunIdle

\* create_calendar_event lines 347-351: calculate_reminders is called with
\* bool(location) and bool(consequence).
ComputeMain ==
    /\ ~rout.mainDone
    /\ rout' = [rout EXCEPT !.mainDone = TRUE,
                             !.main = calculate_reminders(
                    rin.urgency, Truthy(rin.location), Truthy(rin.consequence))]
    /\ UNCHANGED <<rin, storeVars, procVars, httpVars, funVars>>

\* _build_event_body line 214: _calculate_reminders(item); a ProcessedItem
\* holds one of the three urgency levels.
ComputeClient ==
    /\ ~rout.clientDone
    /\ rin.urgency \in URGENCY_LEVELS
    /\ rout' = [rout EXCEPT !.clientDone = TRUE,
                             !.client = calendar_calculate_reminders(rin)]
    /\ UNCHANGED <<rin, storeVars, procVars, httpVars, funVars>>

NextReminders == ComputeMain \/ ComputeClient

SpecReminders == InitReminders /\ [][NextReminders]_vars

\* ------------------------------------------------- ProcessedItem construction
\* The keyword arguments ProcessedItem is constructed with.
ConstructArgs ==
    [category : CATEGORIES \cup {"Bogus"},
     subcategory : IDEA_SUBCATEGORIES \cup {None, "", "Bogus"}]

InitConstruct ==
    /\ vin \in ConstructArgs
    /\ vout = "none"
    /\ mid = 0 /\ snap = <<>> /\ rop = NoRetry /\ qry = NoQuery /\ rt = NoRoundTrip
    /\ inbox = <<>> /\ tabs = [t \in TabNames |-> <<>>] /\ calendar = <<>>
    /\ ProcIdle
    /\ HttpIdle
    /\ RemIdle

\* ProcessedItem(...) is called.
Construct ==
    /\ vout = "none"
    /\ vout' = construct_item(vin.category, vin.subcategory)
    /\ UNCHANGED <<vin, mid, snap, rop, qry, rt, storeVars, procVars, httpVars, remVars>>

NextConstruct == Construct

SpecConstruct == InitConstruct /\ [][NextConstruct]_vars

\* ------------------------------------------------ mark_processed on its own
\* The inboxes mark_processed is applied to: up to MaxRows rows, processed or
\* not, an id possibly twice.
InboxRows == [id : 1..MaxRows, processed : {"TRUE", "FALSE"}]
Inboxes == UNION {[1..n -> InboxRows] : n \in 0..MaxRows}

InitStore ==
    /\ inbox \in Inboxes
    /\ mid \in 1..(MaxRows + 1)
    /\ snap = <<inbox>>
    /\ tabs = [t \in TabNames |-> <<>>] /\ calendar = <<>>
    /\ vin = NoArgs /\ vout = "none" /\ rop = NoRetry /\ qry = NoQuery /\ rt = NoRoundTrip
    /\ ProcIdle
    /\ HttpIdle
    /\ RemIdle

\* mark_processed(mid) is called, up to three times.
MarkCall ==
    /\ Len(snap) >= 1 /\ Len(snap) <= 3
    /\ inbox' = mark_processed(inbox, mid)
    /\ snap' = Append(snap, inbox')
    /\ UNCHANGED <<tabs, calendar, mid, vin, vout, rop, qry, rt, procVars, httpVars, remVars>>

NextStore == MarkCall

SpecStore == InitStore /\ [][NextStore]_vars

\* ------------------------------------------- _retry_operation on its own
\* What one call of the operation may do: return a value, raise a gspread
\* APIError (told apart by its status code) or raise something else.
CallOutcomes ==
    {[kind |-> "ok", what |-> v] : v \in {"rows", "none"}}
      \cup {[kind |-> "APIError", what |-> c] : c \in {"429", "503"}}
      \cup {[kind |-> "Other", what |-> "ValueError"]}

\* SheetsClient.__init__ with max_retries and retry_delay as given, and
\* _retry_operation entered.
InitRetry ==
    /\ \E m \in 0..MaxRetriesBound, d \in {1, 2} :
          rop = [NoRetry EXCEPT !.max_retries = m, !.retry_delay = d,
                                !.res = "running"]
    /\ vin = NoArgs /\ vout = "none" /\ mid = 0 /\ snap = <<>>
    /\ qry = NoQuery /\ rt = NoRoundTrip
    /\ inbox = <<>> /\ tabs = [t \in TabNames |-> <<>>] /\ calendar = <<>>
    /\ ProcIdle
    /\ HttpIdle
    /\ RemIdle

\* _retry_operation line 120: the operation returns and so does the loop.
RetryCallOk ==
    /\ rop.res = "running" /\ rop.attempt < rop.max_retries
    /\ \E o \in {x \in CallOutcomes : x.kind = "ok"} :
          rop' = [rop EXCEPT !.calls = Append(@, o),
                             !.res = "returned", !.value = o.what]
    /\ UNCHANGED <<vin, vout, mid, snap, qry, rt, storeVars, procVars, httpVars, remVars>>

\* lines 121-131: the operation raises APIError; it is kept as
\* last_exception and, unless this was the last attempt, the loop sleeps
\* retry_delay * 2**attempt.
RetryCallAPIError ==
    /\ rop.res = "running" /\ rop.attempt < rop.max_retries
    /\ \E o \in {x \in CallOutcomes : x.kind = "APIError"} :
          rop' = [rop EXCEPT !.calls = Append(@, o),
                             !.last_exception = o.what,
                             !.sleeps =
                                 IF rop.attempt < rop.max_retries - 1
                                 THEN Append(@, rop.retry_delay * Pow2(rop.attempt))
                                 ELSE @,
                             !.attempt = @ + 1]
    /\ UNCHANGED <<vin, vout, mid, snap, qry, rt, storeVars, procVars, httpVars, remVars>>

\* line 120 with an exception the except clause does not name: it leaves
\* _retry_operation at once.
RetryCallOtherError ==
    /\ rop.res = "running" /\ rop.attempt < rop.max_retries
    /\ \E o \in {x \in CallOutcomes : x.kind = "Other"} :
          rop' = [rop EXCEPT !.calls = Append(@, o),
                             !.res = "raised", !.value = o.what]
    /\ UNCHANGED <<vin, vout, mid, snap, qry, rt, storeVars, procVars, httpVars, remVars>>

\* line 132, the loop being exhausted: raise last_exception. With
\* max_retries = 0 the loop never ran, last_exception is None and the raise
\* statement itself fails with TypeError.
RetryRaiseLast ==
    /\ rop.res = "running" /\ rop.attempt >= rop.max_retries
    /\ rop' = [rop EXCEPT !.res = "raised",
                          !.value = IF rop.last_exception = None THEN "TypeError"
                                    ELSE rop.last_exception]
    /\ UNCHANGED <<vin, vout, mid, snap, qry, rt, storeVars, procVars, httpVars, remVars>>

NextRetry == RetryCallOk \/ RetryCallAPIError \/ RetryCallOtherError \/ RetryRaiseLast

SpecRetry == InitRetry /\ [][NextRetry]_vars

\* ------------------------------------------------- the brief queries on a sheet
\* The ISO dates a cell may hold, in calendar order; a date object is the
\* position of its ISO form in the list.
IsoDates == <<"2026-03-01", "2026-03-02", "2026-03-03">>
IsIso(s) == \E i \in 1..Len(IsoDates) : IsoDates[i] = s
\* date.fromisoformat of a cell that is an ISO date.
date_fromisoformat(s) == CHOOSE i \in 1..Len(IsoDates) : IsoDates[i] = s
ITEM_STATUSES == {"pending", "in_progress", "completed", "cancelled"}

\* Two-part sort keys, compared as Python compares tuples.
LexLess(a, b) == a[1] < b[1] \/ (a[1] = b[1] /\ a[2] < b[2])

\* list.sort(key=...): a stable sort of [key, item] pairs, made by inserting
\* each element behind the elements whose key is not greater.
RECURSIVE InsertSorted(_, _)
InsertSorted(sorted, x) ==
    IF sorted = <<>> THEN <<x>>
    ELSE IF LexLess(x.key, Head(sorted).key) THEN <<x>> \o sorted
    ELSE <<Head(sorted)>> \o InsertSorted(Tail(sorted), x)

RECURSIVE SortByKey(_)
SortByKey(s) ==
    IF s = <<>> THEN <<>>
    ELSE InsertSorted(SortByKey(SubSeq(s, 1, Len(s) - 1)), s[Len(s)])

\* The positions of the rows that pass a test, in row order.
RECURSIVE Positions(_, _)
Positions(n, keep) ==
    IF n = 0 THEN <<>>
    ELSE IF n \in keep THEN Append(Positions(n - 1, keep), n)
    ELSE Positions(n - 1, keep)

\* The cells of a Tasks row the queries read: due_date (row[5]), urgency
\* (row[6]), consequence (row[7]) and status (row[8]); the row number stands
\* for the id. The capture endpoint writes urgency as the model answered it.
TaskCells ==
    [due_date : {"", IsoDates[1], IsoDates[2], "tomorrow"},
     urgency : URGENCY_LEVELS \cup {"URGENT"},
     consequence : {""},
     status : {"pending", "completed", "cancelled"}]

\* A from_<type>_row call that raised instead of returning an item.
Raised(result) == "error" \in DOMAIN result

\* ProcessedItem.from_task_row: the pydantic ValidationError of an urgency or
\* status outside its Literal and the ValueError of date.fromisoformat are
\* both ValueErrors; otherwise the item with the cells converted. An Optional
\* date or time is <<>> for None and <<d>> for the value d.
from_task_row(row) ==
    IF (row.urgency # "" /\ row.urgency \notin URGENCY_LEVELS)
          \/ (row.status # "" /\ row.status \notin ITEM_STATUSES)
          \/ (row.due_date # "" /\ ~IsIso(row.due_date))
    THEN [error |-> "ValueError"]
    ELSE [due_date |-> IF row.due_date = "" THEN <<>>
                       ELSE <<date_fromisoformat(row.due_date)>>,
          urgency |-> IF row.urgency = "" THEN "MEDIUM" ELSE row.urgency,
          consequence |-> IF row.consequence = "" THEN None ELSE row.consequence,
          status |-> IF row.status = "" THEN "pending" ELSE row.status]

\* get_tasks_due_by line 330: urgency_order.
urgency_order(u) ==
    CASE u = "HIGH" -> 0 [] u = "MEDIUM" -> 1 [] u = "LOW" -> 2 [] OTHER -> 1

\* date.max, later than every date of a cell.
date_max == Len(IsoDates) + 1

\* get_tasks_due_by lines 332-335: (t.due_date or date.max, urgency rank).
TaskSortKey(item) ==
    <<IF item.due_date = <<>> THEN date_max ELSE item.due_date[1],
      urgency_order(item.urgency)>>

\* get_tasks_due_by lines 313-337: rows that are not completed or cancelled,
\* have a due date that parses and is not after target_date, and that
\* from_task_row accepts, sorted; the list of their row numbers.
get_tasks_due_by(rows, target_date) ==
    LET keep == {i \in 1..Len(rows) :
                    /\ rows[i].status \notin {"completed", "cancelled"}
                    /\ rows[i].due_date # ""
                    /\ IsIso(rows[i].due_date)
                    /\ date_fromisoformat(rows[i].due_date) <= target_date
                    /\ ~Raised(from_task_row(rows[i]))}
        kept == Positions(Len(rows), keep)
        keyed == [k \in 1..Len(kept) |->
                     [key |-> TaskSortKey(from_task_row(rows[kept[k]])),
                      item |-> kept[k]]]
        sorted == SortByKey(keyed)
    IN  [k \in 1..Len(sorted) |-> sorted[k].item]

\* A Tasks tab of up to MaxQueryRows rows and a target date.
InitTasksDue ==
    /\ \E n \in 0..MaxQueryRows, d \in 1..2 :
          \E rows \in [1..n -> TaskCells] :
              qry = [NoQuery EXCEPT !.fn = "get_tasks_due_by", !.tasks = rows,
                                    !.target = d]
    /\ vin = NoArgs /\ vout = "none" /\ mid = 0 /\ snap = <<>> /\ rop = NoRetry
    /\ rt = NoRoundTrip
    /\ inbox = <<>> /\ tabs = [t \in TabNames |-> <<>>] /\ calendar = <<>>
    /\ ProcIdle
    /\ HttpIdle
    /\ RemIdle

\* get_tasks_due_by(target_date) is called.
TasksDueCall ==
    /\ qry.fn = "get_tasks_due_by" /\ ~qry.done
    /\ qry' = [qry EXCEPT !.out = get_tasks_due_by(qry.tasks, qry.target),
                          !.done = TRUE]
    /\ UNCHANGED <<vin, vout, mid, snap, rop, rt, storeVars, procVars, httpVars, remVars>>


\* ---------------------------------------------------------------- claim C31
\* The rows of the Tasks tab that are open and due on or before the target.
OpenTasksDue ==
    {i \in 1..Len(qry.tasks) :
        /\ qry.tasks[i].status \notin {"completed", "cancelled"}
        /\ IsIso(qry.tasks[i].due_date)
        /\ date_fromisoformat(qry.tasks[i].due_date) <= qry.target}

\* The returned rows are in ascending (due_date, urgency rank) order.
TasksInOrder ==
    \A k \in 1..(Len(qry.out) - 1) :
        LET a == qry.tasks[qry.out[k]]
            b == qry.tasks[qry.out[k + 1]]
        IN  ~LexLess(<<date_fromisoformat(b.due_date), urgency_order(b.urgency)>>,
                     <<date_fromisoformat(a.due_date), urgency_order(a.urgency)>>)

NoRowTwice ==
    \A k, l \in 1..Len(qry.out) : qry.out[k] = qry.out[l] => k = l

\* What does hold: the result is the open, due rows that from_task_row
\* accepts, each once, in (due_date, urgency rank) order.
C31_TasksDueByParsed ==
    (qry.fn = "get_tasks_due_by" /\ qry.done) =>
        /\ {qry.out[k] : k \in 1..Len(qry.out)}
              = {i \in OpenTasksDue : ~Raised(from_task_row(qry.tasks[i]))}
        /\ NoRowTwice
        /\ TasksInOrder

\* C31: get_tasks_due_by(D) returns exactly the rows of the Tasks tab whose
\* status is neither completed nor cancelled and whose due date exists and is
\* on or before D, sorted ascending by (due_date, urgency rank), and it leaves
\* the tab as it was.
C31_TasksDueBy ==
    /\ [](( qry.fn = "get_tasks_due_by" /\ qry.done) =>
            /\ {qry.out[k] : k \in 1..Len(qry.out)} = OpenTasksDue
            /\ NoRowTwice
            /\ TasksInOrder)
    /\ [][qry'.tasks = qry.tasks /\ UNCHANGED storeVars]_vars

\* The times of day a cell may hold, in order; a time object is the position
\* of its ISO form in the list. The first is midnight, datetime.min.time().
IsoTimes == <<"00:00", "09:00", "14:00">>
time_fromisoformat(s) == CHOOSE i \in 1..Len(IsoTimes) : IsoTimes[i] = s
datetime_min_time == time_fromisoformat("00:00")

\* The cells of an Events row the queries read: due_date (row[4]), due_time
\* (row[5]), urgency (row[7]) and consequence (row[8]).
EventCells ==
    [due_date : {"", IsoDates[1], IsoDates[2]},
     due_time : {"", "09:00", "14:00"},
     urgency : {"MEDIUM"},
     consequence : {""}]

\* ProcessedItem.from_event_row, with the same ValueErrors as from_task_row.
from_event_row(row) ==
    IF (row.urgency # "" /\ row.urgency \notin URGENCY_LEVELS)
          \/ (row.due_date # "" /\ ~IsIso(row.due_date))
          \/ (row.due_time # ""
                /\ ~\E i \in 1..Len(IsoTimes) : IsoTimes[i] = row.due_time)
    THEN [error |-> "ValueError"]
    ELSE [due_date |-> IF row.due_date = "" THEN <<>>
                       ELSE <<date_fromisoformat(row.due_date)>>,
          due_time |-> IF row.due_time = "" THEN <<>>
                       ELSE <<time_fromisoformat(row.due_time)>>,
          urgency |-> IF row.urgency = "" THEN "MEDIUM" ELSE row.urgency,
          consequence |-> IF row.consequence = "" THEN None ELSE row.consequence]

\* get_events_for_date line 294: e.due_time or datetime.min.time().
EventSortKey(item) ==
    <<IF item.due_time = <<>> THEN datetime_min_time ELSE item.due_time[1], 0>>

\* get_events_for_date lines 281-295: the rows whose date cell is the ISO form
\* of target_date and that from_event_row accepts, sorted by time.
get_events_for_date(rows, target_date) ==
    LET keep == {i \in 1..Len(rows) :
                    /\ rows[i].due_date = IsoDates[target_date]
                    /\ ~Raised(from_event_row(rows[i]))}
        kept == Positions(Len(rows), keep)
        keyed == [k \in 1..Len(kept) |->
                     [key |-> EventSortKey(from_event_row(rows[kept[k]])),
                      item |-> kept[k]]]
        sorted == SortByKey(keyed)
    IN  [k \in 1..Len(sorted) |-> sorted[k].item]

\* An Events tab of up to MaxQueryRows rows and a target date.
InitEventsForDate ==
    /\ \E n \in 0..MaxQueryRows, d \in 1..2 :
          \E rows \in [1..n -> EventCells] :
              qry = [NoQuery EXCEPT !.fn = "get_events_for_date", !.events = rows,
                                    !.target = d]
    /\ vin = NoArgs /\ vout = "none" /\ mid = 0 /\ snap = <<>> /\ rop = NoRetry
    /\ rt = NoRoundTrip
    /\ inbox = <<>> /\ tabs = [t \in TabNames |-> <<>>] /\ calendar = <<>>
    /\ ProcIdle
    /\ HttpIdle
    /\ RemIdle

\* get_events_for_date(target_date) is called.
EventsForDateCall ==
    /\ qry.fn = "get_events_for_date" /\ ~qry.done
    /\ qry' = [qry EXCEPT !.out = get_events_for_date(qry.events, qry.target),
                          !.done = TRUE]
    /\ UNCHANGED <<vin, vout, mid, snap, rop, rt, storeVars, procVars, httpVars, remVars>>

\* ---------------------------------------------------------------- claim C32
\* C32: get_events_for_date(d) returns exactly the events whose date is d, in
\* ascending order of time of day, every event without a time after all the
\* events that have one.
C32_EventsForDate ==
    (qry.fn = "get_events_for_date" /\ qry.done) =>
        /\ {qry.out[k] : k \in 1..Len(qry.out)}
              = {i \in 1..Len(qry.events) :
                    qry.events[i].due_date = IsoDates[qry.target]}
        /\ \A k, l \in 1..Len(qry.out) : qry.out[k] = qry.out[l] => k = l
        /\ \A k \in 1..(Len(qry.out) - 1) :
              LET a == qry.events[qry.out[k]].due_time
                  b == qry.events[qry.out[k + 1]].due_time
              IN  \/ b = ""
                  \/ a # "" /\ time_fromisoformat(a) <= time_fromisoformat(b)

\* The Tasks and Events rows get_items_with_consequences_soon is run on.
SoonTaskCells ==
    [due_date : {"", IsoDates[1], IsoDates[2], IsoDates[3]},
     urgency : {"MEDIUM"},
     consequence : {"", "late fee"},
     status : {"pending", "completed"}]

SoonEventCells ==
    [due_date : {IsoDates[1], IsoDates[2], IsoDates[3]},
     due_time : {""},
     urgency : {"MEDIUM"},
     consequence : {"", "late fee"}]

\* get_items_with_consequences_soon line 491: i.due_date or date.max.
SoonSortKey(item) ==
    <<IF item.due_date = <<>> THEN date_max ELSE item.due_date[1], 0>>

\* get_items_with_consequences_soon lines 457-492: end_date = today + days;
\* the open tasks, then the events, that have a consequence and a due date
\* not after end_date and that from_<type>_row accepts, sorted by due date.
\* An item of the result is the tab and the number of its row.
get_items_with_consequences_soon(tasks, events, today, days) ==
    LET end_date == today + days
        keepT == {i \in 1..Len(tasks) :
                     /\ tasks[i].status \notin {"completed", "cancelled"}
                     /\ tasks[i].consequence # "" /\ tasks[i].due_date # ""
                     /\ IsIso(tasks[i].due_date)
                     /\ date_fromisoformat(tasks[i].due_date) <= end_date
                     /\ ~Raised(from_task_row(tasks[i]))}
        keepE == {i \in 1..Len(events) :
                     /\ events[i].consequence # "" /\ events[i].due_date # ""
                     /\ IsIso(events[i].due_date)
                     /\ date_fromisoformat(events[i].due_date) <= end_date
                     /\ ~Raised(from_event_row(events[i]))}
        keptT == Positions(Len(tasks), keepT)
        keptE == Positions(Len(events), keepE)
        items == [k \in 1..Len(keptT) |->
                     [key |-> SoonSortKey(from_task_row(tasks[keptT[k]])),
                      item |-> [tab |-> "Tasks", row |-> keptT[k]]]]
                 \o [k \in 1..Len(keptE) |->
                     [key |-> SoonSortKey(from_event_row(events[keptE[k]])),
                      item |-> [tab |-> "Events", row |-> keptE[k]]]]
        sorted == SortByKey(items)
    IN  [k \in 1..Len(sorted) |-> sorted[k].item]

\* A Tasks and an Events tab of up to MaxQueryRows rows together, today's date
\* and the number of days to look ahead.
InitConsequences ==
    /\ \E n \in 0..MaxQueryRows, days \in 0..1 :
          \E m \in 0..(MaxQueryRows - n) :
              \E trows \in [1..n -> SoonTaskCells], erows \in [1..m -> SoonEventCells] :
                  qry = [NoQuery EXCEPT !.fn = "get_items_with_consequences_soon",
                                        !.tasks = trows, !.events = erows,
                                        !.today = 2, !.days = days]
    /\ vin = NoArgs /\ vout = "none" /\ mid = 0 /\ snap = <<>> /\ rop = NoRetry
    /\ rt = NoRoundTrip
    /\ inbox = <<>> /\ tabs = [t \in TabNames |-> <<>>] /\ calendar = <<>>
    /\ ProcIdle
    /\ HttpIdle
    /\ RemIdle

\* get_items_with_consequences_soon(days) is called.
ConsequencesCall ==
    /\ qry.fn = "get_items_with_consequences_soon" /\ ~qry.done
    /\ qry' = [qry EXCEPT !.out = get_items_with_consequences_soon(
                                      qry.tasks, qry.events, qry.today, qry.days),
                          !.done = TRUE]
    /\ UNCHANGED <<vin, vout, mid, snap, rop, rt, storeVars, procVars, httpVars, remVars>>

InitQueries == InitTasksDue \/ InitEventsForDate \/ InitConsequences

NextQueries == TasksDueCall \/ EventsForDateCall \/ ConsequencesCall

SpecQueries == InitQueries /\ [][NextQueries]_vars

\* ---------------------------------------------------------------- claim C33
\* The row an item of a result was read from.
RowOf(x) == IF x.tab = "Tasks" THEN qry.tasks[x.row] ELSE qry.events[x.row]

\* The date cell lies in the window from today through today + days.
InWindow(cell) ==
    /\ IsIso(cell)
    /\ qry.today <= date_fromisoformat(cell)
    /\ date_fromisoformat(cell) <= qry.today + qry.days

\* C33: get_items_with_consequences_soon(N) returns exactly the open tasks and
\* the events that have a consequence and a due date from today through
\* today + N days, none due before today and none due later, sorted by due
\* date ascending.
C33_ConsequencesSoon ==
    (qry.fn = "get_items_with_consequences_soon" /\ qry.done) =>
        /\ {qry.out[k] : k \in 1..Len(qry.out)}
              = {[tab |-> "Tasks", row |-> i] : i \in
                    {i \in 1..Len(qry.tasks) :
                        /\ qry.tasks[i].status \notin {"completed", "cancelled"}
                        /\ qry.tasks[i].consequence # ""
                        /\ InWindow(qry.tasks[i].due_date)}}
                \cup
                {[tab |-> "Events", row |-> i] : i \in
                    {i \in 1..Len(qry.events) :
                        /\ qry.events[i].consequence # ""
                        /\ InWindow(qry.events[i].due_date)}}
        /\ \A k, l \in 1..Len(qry.out) : qry.out[k] = qry.out[l] => k = l
        /\ \A k \in 1..(Len(qry.out) - 1) :
              date_fromisoformat(RowOf(qry.out[k]).due_date)
                 <= date_fromisoformat(RowOf(qry.out[k + 1]).due_date)

\* ------------------------------------------------ rows of the destination tabs
\* A people name is the sequence of its characters, so that join and split
\* work on the characters as str.join and str.split do.
NameAl == <<"A", "l">>
NameBo == <<"B", "o">>
NameWithComma == <<"S", ",", "J">>
PeopleLists == {<<>>, <<NameAl>>, <<NameAl, NameBo>>, <<NameWithComma>>}

\* ",".join(names)
RECURSIVE join(_)
join(names) ==
    IF names = <<>> THEN <<>>
    ELSE IF Len(names) = 1 THEN names[1]
    ELSE names[1] \o <<",">> \o join(Tail(names))

\* s.split(","): the pieces of s between the commas.
RECURSIVE split(_)
split(s) ==
    IF \A i \in 1..Len(s) : s[i] # "," THEN <<s>>
    ELSE LET i == CHOOSE i \in 1..Len(s) :
                      s[i] = "," /\ \A j \in 1..(i - 1) : s[j] # ","
         IN  <<SubSeq(s, 1, i - 1)>> \o split(SubSeq(s, i + 1, Len(s)))

\* The valid ProcessedItems that are serialized: the fields of the round trip.
\* An Optional string is None or the string.
RoundTripItems ==
    [id : {"a1b2c3d4"}, item_type : ITEM_TYPES, description : {"call the bank"},
     category : {"Home"}, people : PeopleLists,
     due_date : {<<>>, <<1>>}, due_time : {<<>>, <<2>>},
     urgency : {"MEDIUM", "HIGH"}, consequence : {None, "late fee"},
     notes : {None, "ask for Al"}, location : {None}, status : {"pending"}]

\* x or "" for an Optional string.
OrEmpty(x) == IF x = None THEN "" ELSE x
\* row[i] if row[i] else None
OrNone(cell) == IF cell = "" THEN None ELSE cell
\* self.due_date.isoformat() if self.due_date else ""
DateCell(d) == IF d = <<>> THEN "" ELSE IsoDates[d[1]]
TimeCell(t) == IF t = <<>> THEN "" ELSE IsoTimes[t[1]]
\* date.fromisoformat(row[i]) if row[i] else None
CellDate(cell) == IF cell = "" THEN <<>> ELSE <<date_fromisoformat(cell)>>
CellTime(cell) == IF cell = "" THEN <<>> ELSE <<time_fromisoformat(cell)>>
\* row[i].split(",") if row[i] else []
CellPeople(cell) == IF cell = <<>> THEN <<>> ELSE split(cell)

\* to_task_row, to_event_row, to_idea_row, to_reference_row: the cells in the
\* order of the columns (row[i] of the code is cell i + 1); captured_at and
\* the links are cells the round trip does not read.
to_type_row(item) ==
    CASE item.item_type = "Task" ->
           <<item.id, item.description, item.category, "", join(item.people),
             DateCell(item.due_date), item.urgency, OrEmpty(item.consequence),
             item.status, OrEmpty(item.notes), "", "captured_at">>
      [] item.item_type = "Event" ->
           <<item.id, item.description, item.category, join(item.people),
             DateCell(item.due_date), TimeCell(item.due_time),
             OrEmpty(item.location), item.urgency, OrEmpty(item.consequence),
             "", "captured_at">>
      [] item.item_type = "Idea" ->
           <<item.id, item.description, item.category, "", join(item.people),
             "", "", OrEmpty(item.notes), "captured_at">>
      [] item.item_type = "Reference" ->
           <<item.id, item.description, OrEmpty(item.location), item.category,
             "captured_at">>

\* from_task_row, from_event_row, from_idea_row, from_reference_row on a row
\* of the type: the fields the row does not hold take the defaults of
\* ProcessedItem (no people, no date, no time, MEDIUM, None).
from_type_row(item_type, row) ==
    CASE item_type = "Task" ->
           [id |-> row[1], item_type |-> "Task", description |-> row[2],
            category |-> row[3], people |-> CellPeople(row[5]),
            due_date |-> CellDate(row[6]), due_time |-> <<>>,
            urgency |-> IF row[7] = "" THEN "MEDIUM" ELSE row[7],
            consequence |-> OrNone(row[8]),
            status |-> IF row[9] = "" THEN "pending" ELSE row[9],
            notes |-> OrNone(row[10]), location |-> None]
      [] item_type = "Event" ->
           [id |-> row[1], item_type |-> "Event", description |-> row[2],
            category |-> row[3], people |-> CellPeople(row[4]),
            due_date |-> CellDate(row[5]), due_time |-> CellTime(row[6]),
            urgency |-> IF row[8] = "" THEN "MEDIUM" ELSE row[8],
            consequence |-> OrNone(row[9]), status |-> "pending",
            notes |-> None, location |-> OrNone(row[7])]
      [] item_type = "Idea" ->
           [id |-> row[1], item_type |-> "Idea", description |-> row[2],
            category |-> row[3], people |-> CellPeople(row[5]),
            due_date |-> <<>>, due_time |-> <<>>, urgency |-> "MEDIUM",
            consequence |-> None, status |-> "pending",
            notes |-> OrNone(row[8]), location |-> None]
      [] item_type = "Reference" ->
           [id |-> row[1], item_type |-> "Reference", description |-> row[2],
            category |-> row[4], people |-> <<>>,
            due_date |-> <<>>, due_time |-> <<>>, urgency |-> "MEDIUM",
            consequence |-> None, status |-> "pending",
            notes |-> None, location |-> OrNone(row[3])]

\* A valid item, not yet serialized.
InitRoundTrip ==
    /\ \E item \in RoundTripItems : rt = [NoRoundTrip EXCEPT !.item = <<item>>]
    /\ vin = NoArgs /\ vout = "none" /\ mid = 0 /\ snap = <<>> /\ rop = NoRetry
    /\ qry = NoQuery
    /\ inbox = <<>> /\ tabs = [t \in TabNames |-> <<>>] /\ calendar = <<>>
    /\ ProcIdle
    /\ HttpIdle
    /\ RemIdle

\* item.to_<type>_row()
ToRow ==
    /\ rt.item # <<>> /\ rt.row = <<>>
    /\ rt' = [rt EXCEPT !.row = to_type_row(rt.item[1])]
    /\ UNCHANGED <<vin, vout, mid, snap, rop, qry, storeVars, procVars, httpVars, remVars>>

\* ProcessedItem.from_<type>_row(row)
FromRow ==
    /\ rt.row # <<>> /\ rt.back = <<>>
    /\ rt' = [rt EXCEPT !.back = <<from_type_row(rt.item[1].item_type, rt.row)>>]
    /\ UNCHANGED <<vin, vout, mid, snap, rop, qry, storeVars, procVars, httpVars, remVars>>

NextRoundTrip == ToRow \/ FromRow

SpecRoundTrip == InitRoundTrip /\ [][NextRoundTrip]_vars

\* ---------------------------------------------------------------- claim C34
\* C34: for each item type, the item read back by from_<type>_row from the
\* row to_<type>_row made of a valid item equals the item on id, description,
\* category, people, due date, due time, urgency, consequence and notes,
\* whatever these fields hold, names with a comma included.
C34_RoundTrip ==
    rt.back # <<>> =>
        /\ rt.back[1].id = rt.item[1].id
        /\ rt.back[1].description = rt.item[1].description
        /\ rt.back[1].category = rt.item[1].category
        /\ rt.back[1].people = rt.item[1].people
        /\ rt.back[1].due_date = rt.item[1].due_date
        /\ rt.back[1].due_time = rt.item[1].due_time
        /\ rt.back[1].urgency = rt.item[1].urgency
        /\ rt.back[1].consequence = rt.item[1].consequence
        /\ rt.back[1].notes = rt.item[1].notes

\* The same for the fields the row of the type has a column for: it fails for
\* a name with a comma only.
C34_RoundTripOfStoredFields ==
    (rt.back # <<>> /\ rt.item[1].people # <<NameWithComma>>) =>
        /\ rt.back[1].id = rt.item[1].id
        /\ rt.back[1].description = rt.item[1].description
        /\ rt.back[1].category = rt.item[1].category
        /\ rt.item[1].item_type # "Reference" => rt.back[1].people = rt.item[1].people
        /\ rt.item[1].item_type \in {"Task", "Event"} =>
              /\ rt.back[1].due_date = rt.item[1].due_date
              /\ rt.back[1].urgency = rt.item[1].urgency
              /\ rt.back[1].consequence = rt.item[1].consequence
        /\ rt.item[1].item_type = "Event" => rt.back[1].due_time = rt.item[1].due_time
        /\ rt.item[1].item_type \in {"Task", "Idea"} => rt.back[1].notes = rt.item[1].notes

\* ------------------------------------ both ingestion paths on one store
\* A deployed endpoint with every variable configured and a batch Processor
\* on the same empty sheet, with one request and one cycle left to run; their
\* steps interleave.
InitShared ==
    /\ inbox = <<>>
    /\ tabs = [t \in TabNames |-> <<>>]
    /\ calendar = <<>>
    /\ env = EnvNames
    /\ hpc = "idle" /\ req = NoRequest /\ hid = 0 /\ hdata = NoData
    /\ hroute = NoRoute /\ hops = <<>> /\ resp = NoResponse
    /\ served = MaxRequests - 1
    /\ max_retries \in {0, 1, MaxRetriesBound}
    /\ hasCalendar \in BOOLEAN
    /\ stats = InitStats /\ pc = "idle" /\ cycle = MaxCycles - 1
    /\ outcome = "none"
    /\ queue = <<>> /\ idx = 0 /\ attempt = 0 /\ cur = NoItem /\ ops = <<>>
    /\ stats0 = InitStats
    /\ cstats = InitStats
    /\ RemIdle
    /\ FunIdle

NextShared == Next \/ NextHttp

SpecShared == InitShared /\ [][NextShared]_vars

\* Either the batch Processor or the HTTP endpoint works on the store.
InitPaths == Init \/ InitHttp
NextPaths == Next \/ NextHttp
SpecPaths == InitPaths /\ [][NextPaths]_vars

\* ====================================================================== claims
\* The row appended in this cycle for the capture being processed.
ThisItemRows ==
    UNION {{<<t, i>> : i \in {k \in 1..Len(tabs[t]) :
                                 /\ tabs[t][k].id = generate_id(cycle, Cap)
                                 /\ tabs[t][k].capture = Cap}} : t \in TabNames}

\* _process_single_item has returned for the capture at idx.
Returned == pc = "loop" /\ idx >= 1

\* ------------------------------------------------------------------------ C1
\* Every extraction attempt of the capture raised AIClientError.
C1_AllAttemptsFailed ==
    /\ Returned /\ max_retries >= 1
    /\ CountRes(ops, "extract", "AIClientError") = max_retries

\* C1: with max_retries >= 1, a capture whose extraction raises AIClientError on
\* every attempt is counted once in failed and not in processed, gets no row in
\* any destination tab, mark_processed is never called for it and its
\* processed flag stays false.
C1_ExhaustedRetriesFail ==
    C1_AllAttemptsFailed =>
        /\ stats.failed = stats0.failed + 1
        /\ stats.processed = stats0.processed
        /\ ~HasOpNamed(ops, "append")
        /\ ThisItemRows = {}
        /\ \A k \in {"tasks_created", "events_created", "ideas_created",
                     "references_created"} : stats[k] = stats0[k]
        /\ ~HasOpNamed(ops, "mark_processed")
        /\ ~Processed(Cap)

C1_Witness ==
    /\ C1_AllAttemptsFailed /\ max_retries = 3
    /\ stats.failed = 1 /\ ~Processed(Cap)

\* ------------------------------------------------------------------------ C2
\* C2: for one capture in one cycle extraction is attempted at most max_retries
\* times, the attempts are numbered 0, 1, ...; a failed attempt k <
\* max_retries - 1 is followed by a wait of retry_delay * 2^k and only then by
\* attempt k + 1; no wait follows the last failed attempt, a wait follows
\* nothing but a failed attempt, and no attempt follows a successful one.
C2_RetryBackoff ==
    /\ CountOp(ops, "extract") <= max_retries
    /\ \A i \in 1..Len(ops) :
          /\ ops[i].op = "extract" =>
                /\ ops[i].n < max_retries
                /\ IF i = 1 THEN ops[i].n = 0
                   ELSE ops[i - 1].op = "sleep" /\ ops[i].n = ops[i - 2].n + 1
          /\ (ops[i].op = "extract" /\ ops[i].res = "AIClientError"
                /\ ops[i].n < max_retries - 1) =>
                /\ i + 1 <= Len(ops)
                /\ ops[i + 1].op = "sleep"
                /\ ops[i + 1].n = RetryDelay * 2^(ops[i].n)
                /\ i + 2 <= Len(ops) =>
                      ops[i + 2].op = "extract" /\ ops[i + 2].n = ops[i].n + 1
          /\ (ops[i].op = "extract" /\ ops[i].res = "AIClientError"
                /\ ops[i].n = max_retries - 1) =>
                \A j \in (i + 1)..Len(ops) : ops[j].op \notin {"sleep", "extract"}
          /\ ops[i].op = "sleep" =>
                /\ i > 1
                /\ ops[i - 1].op = "extract" /\ ops[i - 1].res = "AIClientError"
          /\ (ops[i].op = "extract" /\ ops[i].res = "ok") =>
                \A j \in (i + 1)..Len(ops) : ops[j].op \notin {"sleep", "extract"}

\* Two failed attempts, waits of 2 and 4, then a successful third attempt.
C2_Witness ==
    /\ Len(ops) >= 5
    /\ ops[2].op = "sleep" /\ ops[2].n = 2
    /\ ops[4].op = "sleep" /\ ops[4].n = 4
    /\ ops[5].op = "extract" /\ ops[5].res = "ok" /\ ops[5].n = 2

\* ------------------------------------------------------------------------ C3
\* C3: batch Processor: a capture whose processed flag is TRUE has an item row
\* appended for it in a destination tab, and mark_processed is called only
\* after the append for the capture returned without error.
C3_ProcessedHasRow ==
    /\ \A i \in 1..Len(inbox) :
          inbox[i].processed = "TRUE" => RowsFor(inbox[i].id) # {}
    /\ \A i \in 1..Len(ops) :
          ops[i].op = "mark_processed" =>
              /\ \E j \in 1..(i - 1) : ops[j].op = "append" /\ ops[j].res = "ok"
              /\ ThisItemRows # {}

C3_Witness ==
    /\ Returned /\ Processed(Cap) /\ RowsFor(Cap) # {}
    /\ HasOp(ops, "mark_processed", "ok")

\* ------------------------------------------------------------------------ C4
\* C4: HTTP capture endpoint: an inbox row is marked processed only if an item
\* row for it was appended to a destination tab; not when routing raised, and
\* not when the item type is unrecognized.
C4_MarkedOnlyIfRouted ==
    /\ \A i \in 1..Len(inbox) :
          inbox[i].processed = "TRUE" => RowsFor(inbox[i].id) # {}
    /\ hroute.tab_name \in {"Error", "Unknown"} => ~HasOpNamed(hops, "mark_processed")

\* ------------------------------------------------------------------------ C5
\* C5: when the append to the destination tab fails, the capture is counted
\* as failed at once and exactly once, _process_single_item returns without
\* another extraction attempt, no calendar artifact is created and the
\* capture is not marked processed.
C5_AppendFailureIsFinal ==
    HasOp(ops, "append", "error") =>
        /\ pc \in {"loop", "idle", "off"}
        /\ Returned =>
              /\ stats.failed = stats0.failed + 1
              /\ stats.processed = stats0.processed
              /\ Len(ops) >= 2
              /\ ops[Len(ops) - 1].op = "append" /\ ops[Len(ops)].op = "mark_failed"
              /\ CountOp(ops, "append") = 1
              /\ CountRes(ops, "extract", "ok") = 1
              /\ ~HasOpNamed(ops, "create_event")
              /\ \A i \in 1..Len(calendar) : calendar[i].item # generate_id(cycle, Cap)
              /\ ~HasOpNamed(ops, "mark_processed")
              /\ ThisItemRows = {}
              /\ ~Processed(Cap)

\* The append failed on the first attempt although two more were left.
C5_Witness ==
    /\ Returned /\ max_retries = 3 /\ stats.failed = 1
    /\ Len(ops) = 3 /\ ops[2].op = "append" /\ ops[2].res = "error"

\* ------------------------------------------------------------------------ C6
\* Batch: an Event item was appended and its create_event call raised.
C6_BatchCase ==
    /\ pc \in {"mark", "loop"} /\ idx >= 1
    /\ HasOp(ops, "create_event", "error")
    /\ \E i \in 1..Len(ops) :
          ops[i].op = "append" /\ ops[i].res = "ok" /\ ops[i].tab = "Events"

\* HTTP: an Event item with a due date got no calendar artifact and was appended.
C6_HttpCase ==
    /\ hpc \in {"mark", "idle"}
    /\ HttpWantsCalendar(hdata)
    /\ hroute.calendar_event_id = None
    /\ HasOp(hops, "append", "ok")

\* C6: for an Event item with due_date, a failure to create the calendar
\* artifact leaves the item row in the Events tab with an empty
\* calendar_event_id, and processing goes on to mark_processed: unless that
\* call itself fails the capture is marked processed and counted in processed,
\* not in failed.
C6_CalendarFailureNotFatal ==
    /\ (pc = "mark" /\ HasOp(ops, "create_event", "error")
          /\ cur.item_type = "Event") => C6_BatchCase
    /\ C6_BatchCase =>
          /\ \E i \in 1..Len(tabs["Events"]) :
                /\ tabs["Events"][i].id = generate_id(cycle, Cap)
                /\ tabs["Events"][i].capture = Cap
                /\ tabs["Events"][i].calendar_event_id = ""
          /\ pc = "loop" => HasOpNamed(ops, "mark_processed")
          /\ (pc = "loop" /\ HasOp(ops, "mark_processed", "ok")) =>
                /\ Processed(Cap)
                /\ stats.processed = stats0.processed + 1
                /\ stats.failed = stats0.failed
    /\ C6_HttpCase =>
          /\ \E i \in 1..Len(tabs["Events"]) :
                /\ tabs["Events"][i].id = hid
                /\ tabs["Events"][i].calendar_event_id = ""
          /\ hpc = "idle" => HasOpNamed(hops, "mark_processed") /\ resp.status = 200
          /\ HasOp(hops, "mark_processed", "ok") => Processed(hid)

C6_Witness ==
    /\ C6_BatchCase /\ pc = "loop" /\ Processed(Cap)
    /\ stats.processed = 1 /\ stats.failed = 0
    /\ stats.calendar_events_created = 0

\* ------------------------------------------------------------------------ C7
\* C7 as stated: a calendar create call is made only for an item of type Event
\* with a due date, on both ingestion paths.
C7_OnlyEventsGetCalendar ==
    /\ (pc \in {"backfill", "mark"} /\ HasOpNamed(ops, "create_event")) =>
          cur.item_type = "Event" /\ cur.due_date # None
    /\ \A i \in 1..Len(calendar) : calendar[i].item_type = "Event"
    /\ HasOpNamed(hops, "create_event") =>
          ItemTypeOf(hdata) = "Event" /\ hdata.due_date # None

\* C7 amended: a calendar create call is made only for an item with a due
\* date which, in the batch Processor, has calendar_action CREATE_EVENT or
\* CREATE_REMINDER (whatever its item type) and, in the HTTP endpoint, has
\* item type Event.
C7_CalendarOnlyWhenRequested ==
    /\ (pc \in {"backfill", "mark"} /\ HasOpNamed(ops, "create_event")) =>
          /\ cur.calendar_action \in {"CREATE_EVENT", "CREATE_REMINDER"}
          /\ cur.due_date # None
          /\ hasCalendar
    /\ pc = "calendar" =>
          /\ cur.calendar_action \in {"CREATE_EVENT", "CREATE_REMINDER"}
          /\ cur.due_date # None
    /\ Len(calendar) > 0 => \/ hasCalendar
                            \/ \A i \in 1..Len(calendar) : calendar[i].item_type = "Event"
    /\ HasOpNamed(hops, "create_event") =>
          ItemTypeOf(hdata) = "Event" /\ hdata.due_date # None
    /\ hpc = "calendar" => ItemTypeOf(hdata) = "Event" /\ hdata.due_date # None

\* A Task with a due date whose calendar_action asks for a reminder got an artifact.
C7_Witness ==
    /\ pc = "backfill" /\ cur.item_type = "Task"
    /\ cur.calendar_action = "CREATE_REMINDER" /\ cur.due_date # None
    /\ calendar[Len(calendar)].item = cur.id

\* ------------------------------------------------------------------------ C8
\* The minutes of a reminder list, in order.
Minutes(reminders) == [i \in 1..Len(reminders) |-> reminders[i].minutes]

\* The list the reminder policy prescribes for an urgency level and two flags.
C8_Table(urgency, has_location, has_consequence) ==
    IF urgency = "HIGH"
    THEN (IF has_location THEN <<10080, 1440, 60, 120>> ELSE <<10080, 1440, 60>>)
    ELSE IF urgency = "MEDIUM"
    THEN (IF has_location
          THEN (IF has_consequence THEN <<4320, 1440, 120, 10080>>
                ELSE <<4320, 1440, 120>>)
          ELSE (IF has_consequence THEN <<4320, 1440, 10080>> ELSE <<4320, 1440>>))
    ELSE (IF has_location
          THEN (IF has_consequence THEN <<60, 120, 10080>> ELSE <<60, 120>>)
          ELSE (IF has_consequence THEN <<60, 10080>> ELSE <<60>>))

\* C8: for each of the three urgency levels and each pair of flags,
\* calculate_reminders returns popup reminders whose minutes are the base list
\* of the urgency, then 120 if has_location, then 10080 if has_consequence and
\* not yet present; (HIGH, true, true) gives [10080, 1440, 60, 120] and
\* (LOW, false, true) gives [60, 10080].
C8_ReminderTable ==
    (rout.mainDone /\ rin.urgency \in URGENCY_LEVELS) =>
        /\ Minutes(rout.main) =
              C8_Table(rin.urgency, Truthy(rin.location), Truthy(rin.consequence))
        /\ \A i \in 1..Len(rout.main) : rout.main[i].method = "popup"
        /\ (rin.urgency = "HIGH" /\ Truthy(rin.location) /\ Truthy(rin.consequence))
              => Minutes(rout.main) = <<10080, 1440, 60, 120>>
        /\ (rin.urgency = "LOW" /\ ~Truthy(rin.location) /\ Truthy(rin.consequence))
              => Minutes(rout.main) = <<60, 10080>>

C8_Witness ==
    /\ rout.mainDone /\ rin.urgency = "HIGH"
    /\ rin.location = "Gym" /\ rin.consequence = "late fee"
    /\ Len(rout.main) = 4 /\ rout.main[4].minutes = 120

\* ------------------------------------------------------------------------ C9
\* The base minutes of an urgency value; a value outside the levels takes LOW's.
C9_Base(urgency) ==
    IF urgency = "HIGH" THEN <<10080, 1440, 60>>
    ELSE IF urgency = "MEDIUM" THEN <<4320, 1440>>
    ELSE <<60>>

\* At most five reminders, no minutes value twice, and the base reminders
\* first, then the location reminder, then the consequence reminder.
C9_WellFormed(reminders, urgency) ==
    /\ Len(reminders) <= 5
    /\ \A i, j \in 1..Len(reminders) :
          reminders[i].minutes = reminders[j].minutes => i = j
    /\ \E l \in {<<>>, <<120>>}, c \in {<<>>, <<10080>>} :
          Minutes(reminders) = C9_Base(urgency) \o l \o c

\* C9: for every urgency (one outside the three levels included) and every
\* pair of flags the reminder list of either implementation has at most 5
\* entries, no two with the same minutes, in the order base, location,
\* consequence.
C9_ReminderListWellFormed ==
    /\ rout.mainDone => C9_WellFormed(rout.main, rin.urgency)
    /\ rout.clientDone => C9_WellFormed(rout.client, rin.urgency)

\* An urgency outside the levels, with both a location and a consequence.
C9_Witness ==
    /\ rout.mainDone /\ rin.urgency \notin URGENCY_LEVELS
    /\ Truthy(rin.location) /\ Truthy(rin.consequence)
    /\ Minutes(rout.main) = <<60, 120, 10080>>

\* ----------------------------------------------------------------------- C10
\* C10 as stated: CalendarClient._calculate_reminders(item) equals
\* calculate_reminders(urgency, location non-empty, consequence non-empty)
\* for every item, whatever its item_type.
C10_ImplementationsAgree ==
    (rout.mainDone /\ rout.clientDone) => rout.client = rout.main

\* C10 amended: the two implementations agree for every item of type Event and
\* for every item without a location; for an item of another type with a
\* location the calendar client leaves the 120-minute reminder out and is
\* otherwise equal.
C10_AgreeExceptTravelBuffer ==
    (rout.mainDone /\ rout.clientDone) =>
        /\ (rin.item_type = "Event" \/ ~Truthy(rin.location)) => rout.client = rout.main
        /\ (rin.item_type # "Event" /\ Truthy(rin.location)) =>
              /\ \A i \in 1..Len(rout.client) : rout.client[i].minutes # 120
              /\ rout.client = SelectSeq(rout.main, LAMBDA r : r.minutes # 120)
              /\ rout.client # rout.main

C10_Witness ==
    /\ rout.mainDone /\ rout.clientDone
    /\ rin.item_type = "Event" /\ rin.location = "Gym"
    /\ rout.client = rout.main /\ Len(rout.client) >= 2
    /\ \E i \in 1..Len(rout.client) : rout.client[i].minutes = 120

\* ----------------------------------------------------------------------- C11
\* C11 as stated: with a valid category, construction succeeds if and only if
\* subcategory is absent (None), or category is Ideas and subcategory is in
\* IDEA_SUBCATEGORIES.
C11_SubcategoryOnlyForIdeas ==
    (vout # "none" /\ vin.category \in CATEGORIES) =>
        (vout = "ok" <=>
            \/ vin.subcategory = None
            \/ vin.category = "Ideas" /\ vin.subcategory \in IDEA_SUBCATEGORIES)

\* C11 amended: with a valid category, construction succeeds if and only if
\* subcategory is None or the empty string, or category is Ideas and
\* subcategory is in IDEA_SUBCATEGORIES; (Ideas, Books) is accepted and
\* (Work, Books) fails.
C11_SubcategoryEmptyOrIdeas ==
    (vout # "none" /\ vin.category \in CATEGORIES) =>
        /\ vout = "ok" <=>
              \/ vin.subcategory \in {None, ""}
              \/ vin.category = "Ideas" /\ vin.subcategory \in IDEA_SUBCATEGORIES
        /\ vout \in {"ok", "ValidationError"}
        /\ (vin.category = "Ideas" /\ vin.subcategory = "Books") => vout = "ok"
        /\ (vin.category = "Work" /\ vin.subcategory = "Books") =>
              vout = "ValidationError"

C11_Witness ==
    /\ vin.category = "Work" /\ vin.subcategory = "Books"
    /\ vout = "ValidationError"

\* ----------------------------------------------------------------------- C12
\* C12: on both ingestion paths an extraction response whose category is not
\* in CATEGORIES is not rejected: the batch Processor does not fail the
\* extraction on account of the category, and the HTTP endpoint goes on with
\* category Personal and answers 200.
C12_InvalidCategoryCoerced ==
    /\ \A i \in 1..Len(ops) :
          ops[i].op = "extract" =>
              ~(ops[i].res = "ValidationError" /\ ops[i].tab = "category")
    /\ \A i \in 1..Len(hops) :
          (hops[i].op = "extract" /\ hops[i].res = "ok"
              /\ hops[i].tab \notin CATEGORIES) =>
              /\ hdata.category = "Personal"
              /\ hpc = "idle" => resp.status = 200

\* ----------------------------------------------------------------------- C13
\* C13: every failure of extract_to_processed_item reaches the Processor as
\* AIClientError, and so is followed by a wait and another attempt whenever an
\* attempt is left.
C13_FailuresAreAIClientErrors ==
    \A i \in 1..Len(ops) :
        (ops[i].op = "extract" /\ ops[i].res # "ok") =>
            /\ ops[i].res = "AIClientError"
            /\ ops[i].n < max_retries - 1 =>
                  (i + 1 <= Len(ops) /\ ops[i + 1].op = "sleep")

\* ----------------------------------------------------------------------- C14
\* The Processor is at work on the capture at idx.
AtWork == pc \in {"extract", "route", "calendar", "backfill", "mark"}

\* C14: get_unprocessed_items returns no row whose processed cell is TRUE, so
\* a capture that was marked processed is never again fetched, extracted,
\* appended or marked: the capture the Processor works on and the captures
\* still waiting in the fetched list are unprocessed.
C14_ProcessedNeverRefetched ==
    /\ \A i \in 1..Len(get_unprocessed_items(inbox)) :
          ~Processed(get_unprocessed_items(inbox)[i])
    /\ AtWork => ~Processed(Cap)
    /\ pc \in {"loop", "extract", "route", "calendar", "backfill", "mark"} =>
          \A j \in (idx + 1)..Len(queue) : ~Processed(queue[j])

\* A second cycle ran after the only capture was marked, and fetched nothing.
C14_Witness ==
    /\ cycle = 2 /\ Len(inbox) = 1 /\ Processed(1)
    /\ queue = <<>> /\ outcome = "returned"
    /\ Cardinality(RowsFor(1)) = 1

\* ----------------------------------------------------------------------- C15
\* C15: mark_processed is idempotent on the store. The first call sets the
\* processed cell of the first row with the id to TRUE and changes no other
\* cell and no other row; a call for an id no row has changes nothing; a call
\* for a capture already processed leaves the inbox as it is.
C15_MarkProcessedIdempotent ==
    /\ Len(snap) >= 2 =>
          LET old == snap[1]
              new == snap[2]
              hit == {i \in 1..Len(old) : old[i].id = mid}
          IN  /\ Len(new) = Len(old)
              /\ hit = {} => new = old
              /\ \A i \in 1..Len(old) :
                    /\ new[i].id = old[i].id
                    /\ IF i \in hit /\ \A j \in hit : i <= j
                       THEN new[i].processed = "TRUE"
                       ELSE new[i].processed = old[i].processed
    /\ \A k \in 3..Len(snap) : snap[k] = snap[2]
    /\ Len(snap) >= 1 => inbox = snap[Len(snap)]

\* A second call for a capture the first call has marked.
C15_Witness ==
    /\ Len(snap) = 3 /\ snap[1] # snap[2] /\ snap[3] = snap[2]
    /\ \E i \in 1..Len(inbox) : inbox[i].id = mid /\ inbox[i].processed = "TRUE"

\* ----------------------------------------------------------------------- C17
\* C17: over any sequence of cycles, cycles with failing store operations
\* included, a capture has at most one item row, in one destination tab.
C17_AtMostOneRow ==
    \A i \in 1..Len(inbox) : Cardinality(RowsFor(inbox[i].id)) <= 1

\* ----------------------------------------------------------------------- C16
\* Every capture of the inbox is marked processed.
AllProcessed == \A i \in 1..Len(inbox) : inbox[i].processed = "TRUE"

\* The number of cycles the inbox gets, less one: with no more failed
\* captures than this, one cycle at least is free of failures.
FailuresAllowed ==
    (IF MaxWork \div Len(inbox) < MaxCycles THEN MaxWork \div Len(inbox)
     ELSE MaxCycles) - 1

\* The fairness assumption does not hold: no attempt is ever made
\* (max_retries = 0), a fetch failed, or captures failed in every cycle.
C16_Unfair ==
    \/ max_retries = 0
    \/ outcome \in {"ProcessorError", "APIError"}
    \/ stats.failed > FailuresAllowed

\* No inbox row is removed; a capture that failed is still unprocessed; and
\* the list fetched by a cycle holds every capture that is unprocessed.
C16_FailedStays ==
    /\ Len(inbox) >= 1 /\ \A i \in 1..Len(inbox) : inbox[i].id = i
    /\ (Returned /\ stats.failed = stats0.failed + 1) =>
          InInbox(Cap) /\ ~Processed(Cap)
    /\ (cycle >= 1 /\ outcome \in {"running", "returned"}) =>
          \A i \in 1..Len(inbox) :
              inbox[i].processed # "TRUE" =>
                  \E j \in 1..Len(queue) : queue[j] = inbox[i].id

\* C16: a capture that ends a cycle as failed is not removed and is fetched
\* again by every later cycle until it is marked processed; and if the fetch
\* never fails, attempts are made and some cycle is free of failures, every
\* capture is eventually marked processed.
C16_FailedCapturesRetried ==
    [](C16_FailedStays) /\ <>(C16_Unfair \/ AllProcessed)

\* The capture failed in the first cycle and was processed in the second.
C16_Witness ==
    /\ cycle = 2 /\ stats.failed = 1 /\ stats.processed = 1
    /\ AllProcessed /\ ~C16_Unfair

\* ----------------------------------------------------------------------- C18
\* The request handler is between its inbox append and its response.
Serving == hpc \in {"gemini", "route", "calendar", "append", "mark"}

\* C18: with the HTTP endpoint and a batch cycle running against the same
\* store, each capture is extracted and persisted at most once: the Processor
\* never works on the capture the endpoint is serving, no capture is
\* extracted by both, and no capture has two item rows.
C18_OncePerCapture ==
    /\ ~(AtWork /\ Serving /\ Cap = hid)
    /\ ~(idx >= 1 /\ idx <= Len(queue) /\ Cap = hid
           /\ HasOp(ops, "extract", "ok") /\ HasOp(hops, "extract", "ok"))
    /\ \A c \in 1..MaxRequests : Cardinality(RowsFor(c)) <= 1

\* ----------------------------------------------------------------------- C19
\* The tabs holding a row with the given id.
TabsWith(id) == {t \in TabNames : \E k \in 1..Len(tabs[t]) : tabs[t][k].id = id}

\* The one tab the routing contract gives to a recognized item type.
C19_Tab(item_type) ==
    IF item_type = "Task" THEN {"Tasks"}
    ELSE IF item_type = "Event" THEN {"Events"}
    ELSE IF item_type = "Idea" THEN {"Ideas"}
    ELSE IF item_type = "Reference" THEN {"Reference"}
    ELSE {}

\* C19: routing dispatches on item_type alone: once the append returned, the
\* item's row is in the tab of its type and in no other tab (Task in Tasks,
\* Event in Events, Idea in Ideas, Reference in Reference), on both paths; in
\* the HTTP endpoint an unrecognized item_type gives no row in any tab and,
\* the spreadsheet once opened, the tab name "Unknown" with no error; the
\* response is the 200 of a served capture.
C19_RoutingByItemType ==
    /\ pc \in {"calendar", "backfill", "mark"} =>
          /\ cur.item_type \in ITEM_TYPES
          /\ TabsWith(cur.id) = C19_Tab(cur.item_type)
          /\ Cardinality(TabsWith(cur.id)) = 1
          /\ ops[Len(ops)].op = "append" =>
                {ops[Len(ops)].tab} = C19_Tab(cur.item_type)
    /\ (hpc \in {"mark", "idle"} /\ HasOp(hops, "append", "ok")) =>
          /\ TabsWith(hid) = C19_Tab(ItemTypeOf(hdata))
          /\ Cardinality(TabsWith(hid)) = 1
          /\ {hroute.tab_name} = C19_Tab(ItemTypeOf(hdata))
    /\ (hpc \in {"mark", "idle"} /\ HasOp(hops, "extract", "ok")
          /\ ItemTypeOf(hdata) \notin ITEM_TYPES) =>
          /\ TabsWith(hid) = {}
          /\ ~HasOp(hops, "append", "ok")
          /\ ~HasOp(hops, "append", "error") => hroute.tab_name = "Unknown"
          /\ hpc = "idle" => resp.status = 200 /\ resp.success

\* An answer of an unrecognized type was served: no row, no error.
C19_Witness ==
    /\ hpc = "idle" /\ hdata.item_type = "Note" /\ hroute.tab_name = "Unknown"
    /\ TabsWith(hid) = {} /\ resp.status = 200

\* ----------------------------------------------------------------------- C20
\* What a step may do to the store: only while the Processor works on the
\* capture at idx, and only to rows and artifacts of that capture.
C20_StoreStep ==
    /\ inbox' # inbox =>
          /\ pc = "mark" /\ Len(inbox') = Len(inbox)
          /\ \A i \in 1..Len(inbox) : inbox'[i] # inbox[i] => inbox[i].id = Cap
    /\ tabs' # tabs =>
          /\ pc \in {"route", "backfill"}
          /\ \A t \in TabNames :
                /\ Len(tabs'[t]) >= Len(tabs[t])
                /\ \A k \in 1..Len(tabs'[t]) :
                      (k > Len(tabs[t]) \/ tabs'[t][k] # tabs[t][k]) =>
                          tabs'[t][k].capture = Cap
    /\ calendar' # calendar =>
          /\ pc = "calendar"
          /\ calendar' = Append(calendar, calendar'[Len(calendar')])
          /\ calendar'[Len(calendar')].capture = Cap

\* C20: within a cycle the captures are handled one after another in the
\* order of the fetched list: the list is fixed during the cycle, the index
\* moves by one and only after the capture before has returned, every store
\* or calendar operation concerns the capture at the index, and the cycle ends
\* only when the list is exhausted, whatever failed or was retried.
C20_OneAtATimeInOrder ==
    [][/\ queue' # queue => pc = "idle"
       /\ idx' # idx => \/ pc = "idle" /\ idx' = 0
                        \/ pc = "loop" /\ idx' = idx + 1
       /\ (pc = "loop" /\ pc' = "idle") => idx = Len(queue)
       /\ (pc # "idle" /\ pc' # "idle") => idx' <= Len(queue)
       /\ C20_StoreStep]_vars

\* The first capture failed after a retry and the second one is at work.
C20_Witness ==
    /\ Len(queue) = 2 /\ idx = 2 /\ pc = "route"
    /\ stats.failed = 1 /\ ~Processed(queue[1]) /\ max_retries = 3

\* ----------------------------------------------------------------------- C21
\* The captures the running cycle has counted so far, as processed or failed.
Counted == (stats.processed + stats.failed) - (cstats.processed + cstats.failed)

\* C21: with max_retries >= 1 a started process_inbox call returns, and the
\* captures of the fetched list are counted one by one, each exactly once as
\* processed or failed: after the i-th capture the two counters have grown by
\* i together, and on return by the length of the fetched list.
C21_EveryCaptureCountedOnce ==
    /\ [](max_retries >= 1 =>
            /\ pc = "loop" => Counted = idx
            /\ pc \in {"extract", "route", "calendar", "backfill", "mark"} =>
                  /\ Counted = idx - 1
                  /\ stats.processed + stats.failed
                       = stats0.processed + stats0.failed
            /\ (pc = "idle" /\ outcome = "returned") =>
                  /\ Counted = Len(queue)
                  /\ stats.processed >= cstats.processed
                  /\ stats.failed >= cstats.failed)
    /\ (max_retries >= 1 /\ outcome = "running")
          ~> (pc = "idle" /\ outcome = "returned")

\* A cycle of two captures has returned: one processed, one failed.
C21_Witness ==
    /\ pc = "idle" /\ outcome = "returned" /\ max_retries >= 1
    /\ Len(queue) = 2 /\ stats.processed = 1 /\ stats.failed = 1

\* ----------------------------------------------------------------------- C22
\* C22: a failed fetch of the unprocessed list ends process_inbox with
\* ProcessorError; no capture was fetched or worked on and the statistics
\* are those of the start of the call.
C22_FetchFailureIsProcessorError ==
    outcome \notin {"none", "running", "returned"} =>
        /\ outcome = "ProcessorError"
        /\ queue = <<>> /\ ops = <<>> /\ cur = NoItem
        /\ stats = cstats

\* ----------------------------------------------------------------------- C23
\* C23: the statistics a process_inbox call returns count the captures of
\* that call only: every counter returned is what the call itself added,
\* also in a later call on the same Processor.
C23_StatsPerCycle ==
    (pc = "idle" /\ outcome = "returned") =>
        \A k \in DOMAIN stats : stats[k] = stats[k] - cstats[k]

\* ----------------------------------------------------------------------- C24
\* The calendar artifacts created for the item of the given id.
ArtifactsOf(id) == {j \in 1..Len(calendar) : calendar[j].item = id}

\* C24: for every Task or Event row whose capture is no longer being worked
\* on, calendar_event_id is empty exactly when no calendar artifact exists for
\* the item, and an id on the row is the id of an artifact of that item.
C24_CalendarIdMatchesArtifact ==
    \A t \in {"Tasks", "Events"} : \A k \in 1..Len(tabs[t]) :
        (/\ ~(AtWork /\ Cap = tabs[t][k].capture)
         /\ ~(Serving /\ hid = tabs[t][k].capture)) =>
            /\ tabs[t][k].calendar_event_id = "" <=> ArtifactsOf(tabs[t][k].id) = {}
            /\ tabs[t][k].calendar_event_id # "" =>
                  \E j \in ArtifactsOf(tabs[t][k].id) :
                      calendar[j].id = tabs[t][k].calendar_event_id

\* ----------------------------------------------------------------------- C25
\* The calls made so far that raised APIError.
APIErrorCalls == {i \in 1..Len(rop.calls) : rop.calls[i].kind = "APIError"}

\* What holds of _retry_operation whenever max_retries is at least one.
C25_Contract ==
    /\ Len(rop.calls) <= rop.max_retries
    /\ \A i \in 1..(Len(rop.calls) - 1) : i \in APIErrorCalls
    /\ Len(rop.sleeps) = Cardinality({i \in APIErrorCalls : i < rop.max_retries})
    /\ \A i \in 1..Len(rop.sleeps) : rop.sleeps[i] = rop.retry_delay * 2^(i - 1)
    /\ rop.res = "returned" =>
          /\ Len(rop.calls) >= 1
          /\ rop.calls[Len(rop.calls)] = [kind |-> "ok", what |-> rop.value]
    /\ rop.res = "raised" =>
          /\ Len(rop.calls) >= 1
          /\ \/ rop.calls[Len(rop.calls)] = [kind |-> "Other", what |-> rop.value]
             \/ /\ Len(rop.calls) = rop.max_retries
                /\ rop.calls[Len(rop.calls)] = [kind |-> "APIError", what |-> rop.value]
    /\ (rop.res = "running" /\ Len(rop.calls) >= 1) =>
          rop.calls[Len(rop.calls)].kind = "APIError"

\* C25: _retry_operation calls the operation at most max_retries times, each
\* call but the last having raised APIError; it returns the value of the call
\* that succeeded; the k-th pause lasts retry_delay * 2^(k-1) and there is
\* one after every failed attempt but the last allowed; what it raises is
\* the error of a call that raised no APIError, or the APIError of the
\* max_retries-th call.
C25_RetryOperation == rop.res # "off" => C25_Contract

\* The same for max_retries >= 1 only.
C25_RetryOperationFromOne ==
    (rop.res # "off" /\ rop.max_retries >= 1) => C25_Contract

\* ----------------------------------------------------------------------- C26
\* The step calls _handle_failed_item: mark_failed joins the log.
FailureRecorded == CountOp(ops', "mark_failed") > CountOp(ops, "mark_failed")

C27_Authorized ==
    /\ req.method = "POST"
    /\ "CAPTURE_API_KEY" \in env
    /\ req.bearer = GoodKey \/ req.xkey = GoodKey
    /\ req.body = "text"

\* C27: the endpoint appends no inbox row, makes no extraction call and routes
\* nothing unless the request is a POST with the configured key and a
\* non-empty text: a request that is none gets its answer at once, and every
\* step that writes to the store or the calendar, or makes a call, belongs to
\* an authorized request; without a configured key every POST gets 401.
C27_NoEffectUnlessAuthorized ==
    /\ []((req # NoRequest /\ ~C27_Authorized) =>
             /\ hpc = "idle" /\ hops = <<>> /\ hid = 0
             /\ resp.status \in {200, 400, 401, 405} /\ resp.success = FALSE
             /\ (req.method = "POST" /\ "CAPTURE_API_KEY" \notin env) =>
                   resp.status = 401)
    /\ [][(\/ inbox' # inbox \/ tabs' # tabs \/ calendar' # calendar
           \/ Len(hops') > Len(hops)) => C27_Authorized /\ req' = req]_vars

\* A POST with the right key was refused for want of a configured key, after
\* nothing had been written.
C27_Witness ==
    /\ req.method = "POST" /\ req.xkey = GoodKey /\ req.body = "text"
    /\ "CAPTURE_API_KEY" \notin env
    /\ hpc = "idle" /\ resp.status = 401 /\ inbox = <<>> /\ hops = <<>>

\* ----------------------------------------------------------------------- C28
\* C28: an OPTIONS request is answered at once with status 200 and the CORS
\* headers, whatever key it carries and whatever is configured; the step
\* that serves it writes nothing to the store or the calendar and no
\* extraction, store or calendar call is made for it.
C28_OptionsShortCircuit ==
    /\ [](req.method = "OPTIONS" =>
             /\ hpc = "idle" /\ resp.status = 200 /\ resp.cors
             /\ hops = <<>> /\ hid = 0)
    /\ [][req'.method = "OPTIONS" =>
             /\ inbox' = inbox /\ tabs' = tabs /\ calendar' = calendar
             /\ hops' = <<>>]_vars

\* An OPTIONS request with a wrong key, no key being configured, got its 200.
C28_Witness ==
    /\ req.method = "OPTIONS" /\ req.bearer = "bad" /\ req.xkey = "bad"
    /\ "CAPTURE_API_KEY" \notin env
    /\ resp.status = 200 /\ resp.cors /\ hpc = "idle"

\* ----------------------------------------------------------------------- C29
\* C29: when process_with_gemini gave nothing after the inbox row was saved,
\* the answer is 200 with success true, the inbox row of the capture is there
\* with processed FALSE and is among the rows a batch cycle would fetch, no
\* destination tab has a row of the capture and the calendar no artifact.
C29_DegradedCaptureStaysInInbox ==
    (hpc = "idle" /\ HasOp(hops, "extract", "none")) =>
        /\ resp.status = 200 /\ resp.success
        /\ HasOp(hops, "inbox_append", "ok")
        /\ \E i \in 1..Len(inbox) : inbox[i] = [id |-> hid, processed |-> "FALSE"]
        /\ \E j \in 1..Len(get_unprocessed_items(inbox)) :
              get_unprocessed_items(inbox)[j] = hid
        /\ RowsFor(hid) = {} /\ TabsWith(hid) = {}
        /\ \A j \in 1..Len(calendar) : calendar[j].capture # hid
        /\ hroute = NoRoute /\ hdata = NoData

\* The second request was saved and not extracted, the extraction key being
\* configured; the first one had been routed.
C29_Witness ==
    /\ hpc = "idle" /\ HasOp(hops, "extract", "none") /\ "GOOGLE_API_KEY" \in env
    /\ hid = 2 /\ Processed(1) /\ RowsFor(1) # {} /\ resp.status = 200

\* ----------------------------------------------------------------------- C30
\* C30: a POST with a non-empty text, served while CAPTURE_API_KEY or
\* GOOGLE_SHEET_ID is not configured, is answered with status 500.
C30_MissingConfigurationIs500 ==
    (/\ req.method = "POST" /\ req.body = "text"
     /\ "CAPTURE_API_KEY" \notin env \/ "GOOGLE_SHEET_ID" \notin env) =>
        hpc = "idle" /\ resp.status = 500

\* ---------------------------------------------------------------- claim C35
\* The attempts of the capture at which the extraction raised something that
\* is no AIClientError.
OtherErrorAttempts ==
    {i \in 1..Len(ops) :
        ops[i].op = "extract" /\ ops[i].res \notin {"ok", "AIClientError"}}

\* C35: an exception of the extraction or validation that is no AIClientError
\* is not retried: that attempt is the last one, no pause and no further
\* attempt follow, the capture is counted as failed once, nothing is appended
\* for it and it is not marked processed.
C35_OtherErrorNotRetried ==
    OtherErrorAttempts # {} =>
        /\ pc \in {"loop", "idle", "off"}
        /\ Cardinality(OtherErrorAttempts) = 1
        /\ OtherErrorAttempts = {Len(ops) - 1}
        /\ ops[Len(ops)].op = "mark_failed"
        /\ ~HasOpNamed(ops, "append")
        /\ ~HasOpNamed(ops, "mark_processed")
        /\ Returned =>
              /\ stats.failed = stats0.failed + 1
              /\ stats.processed = stats0.processed
              /\ ThisItemRows = {}
              /\ ~Processed(Cap)

\* A category outside CATEGORIES at the first of three attempts.
C35_Witness ==
    /\ Returned /\ max_retries = 3 /\ stats.failed = stats0.failed + 1
    /\ Len(ops) = 2
    /\ ops[1].op = "extract" /\ ops[1].res = "ValidationError"
    /\ ops[1].tab = "category" /\ ops[1].n = 0

ArtifactsOfCycle ==
    {j \in 1..Len(calendar) :
        \E c \in 1..NumCaptures : calendar[j].item = generate_id(cycle, c)}

\* C37: once the calendar step of a capture is over, the
\* calendar_events_created counter has grown in the cycle by the number of
\* artifacts the calendar created in it, also when writing the event id back
\* to the sheet failed.
C37_CounterMatchesArtifacts ==
    (pc \in {"mark", "loop"} \/ (pc = "idle" /\ outcome = "returned")) =>
        stats.calendar_events_created - cstats.calendar_events_created
            = Cardinality(ArtifactsOfCycle)

\* ---------------------------------------------------------------- claim C38
\* C38: with max_retries = 0 no capture is ever attempted: no extraction, no
\* append, no calendar call and no mark is made, the tabs, the calendar and
\* the processed cells stay as they were, and neither processed nor failed is
\* incremented; process_inbox returns normally.
C38_ZeroRetriesSkipsAll ==
    max_retries = 0 =>
        /\ ops = <<>>
        /\ pc \in {"off", "idle", "loop", "extract"}
        /\ \A k \in DOMAIN stats : stats[k] = 0
        /\ \A t \in TabNames : tabs[t] = <<>>
        /\ calendar = <<>>
        /\ \A i \in 1..Len(inbox) : inbox[i].processed = "FALSE"

\* Two captures were fetched and both skipped; the call has returned.
C38_Witness ==
    /\ max_retries = 0 /\ pc = "idle" /\ outcome = "returned"
    /\ Len(queue) = 2 /\ idx = 2
    /\ stats.processed = 0 /\ stats.failed = 0

\* ---------------------------------------------------------------- claim C39
\* The last request was answered by one of the checks at the head of capture:
\* the endpoint is idle again and has made no call.
C39_Rejected == hpc = "idle" /\ req # NoRequest /\ hops = <<>>

\* C39: the checks are made in the order OPTIONS, method, API key, body,
\* sheet-id configuration and the first that fails answers: OPTIONS gets 200,
\* another method than POST 405 even with a bad key, a POST with a bad key 401
\* even with an invalid body, a POST with a good key and an invalid body 400,
\* and a valid POST without GOOGLE_SHEET_ID 500; a request answered this way
\* has written no inbox row, and a request that passes all checks is not
\* answered by them.
C39_FirstFailingCheckAnswers ==
    req # NoRequest =>
        LET post == req.method = "POST"
            key == verify_api_key(req, env)
            body == req.body = "text"
            sheet == "GOOGLE_SHEET_ID" \in env
        IN  /\ req.method = "OPTIONS" => C39_Rejected /\ resp.status = 200
            /\ req.method \notin {"OPTIONS", "POST"} =>
                  C39_Rejected /\ resp.status = 405
            /\ (post /\ ~key) => C39_Rejected /\ resp.status = 401
            /\ (post /\ key /\ ~body) => C39_Rejected /\ resp.status = 400
            /\ (post /\ key /\ body /\ ~sheet) => C39_Rejected /\ resp.status = 500
            /\ (post /\ key /\ body /\ sheet) => ~C39_Rejected
            /\ C39_Rejected =>
                  /\ \A i \in 1..Len(inbox) : inbox[i].id # served
                  /\ resp.cors

\* A POST with a wrong key and a body without text was answered 401.
C39_Witness ==
    /\ C39_Rejected /\ req.method = "POST"
    /\ "CAPTURE_API_KEY" \in env /\ req.bearer = "bad" /\ req.body = "no_json"
    /\ resp.status = 401 /\ inbox = <<>>

====
